---------------------------- MODULE Spec2Model ----------------------------
(***************************************************************************)
(* Model of the scoring and leaderboard code of the economic forecasting   *)
(* app (src/src/App.js): calculateBrierScore, calculateTimeWeightedBrier,  *)
(* getUserStats, getLeaderboard, normalizeForecast, and the forecast       *)
(* submission path onSubmitForecast / loadAppData against the forecasts     *)
(* table (src/supabase/User_and_forecast_management_system_supabase_example)*)
(*                                                                         *)
(* Specifications:                                                         *)
(*   SpecBrier  calculateBrierScore applied to one forecast / resolution   *)
(*   SpecTW     calculateTimeWeightedBrier applied to a forecast history   *)
(*   SpecStats  getUserStats of one user as the snapshot changes           *)
(*   SpecRender getUserStats called twice on one snapshot                  *)
(*   SpecBoard  getLeaderboard over a snapshot of several users           *)
(*   SpecForm   the forecast form: editing, validation, submission        *)
(*   SpecInput  the forecast form: out-of-range input, the submit button   *)
(*   SpecStore  concurrent sessions submitting to the forecasts table      *)
(*   Spec       the app: submissions, reloads, resolution, the clock       *)
(*   SpecAdmin  the admin panel: questions and users managed               *)
(*   SpecShared an admin session and a forecaster session on one question  *)
(***************************************************************************)
EXTENDS Integers, Sequences, FiniteSets, TLC

VARIABLES
    pc,          \* position of the specification's driver
    qtype,       \* SpecBrier: question.type
    fc,          \* SpecBrier: the forecast value (forecast.forecast)
    res,         \* SpecBrier: question.resolution
    score,       \* SpecBrier: value returned by calculateBrierScore
    hist,        \* SpecTW: forecastHistory
    quest,       \* SpecTW: question; SpecShared: selectedQuestion
    tw,          \* SpecTW: value returned by calculateTimeWeightedBrier
    questions,   \* React state: questions
    forecasts,   \* React state: forecasts
    users,       \* React state: users
    stats,       \* SpecStats: value returned by getUserStats
    board,       \* SpecStats: value returned by getLeaderboard
    dbQuestions, \* table public.questions
    dbForecasts, \* table public.forecasts
    dbUsers,     \* table public.users
    currentUser, \* React state: currentUser
    now,         \* the wall clock (ms)
    error,       \* React state: error
    faults       \* number of backend calls that have returned an error

vars == <<pc, qtype, fc, res, score, hist, quest, tw, questions, forecasts,
          users, stats, board, dbQuestions, dbForecasts, dbUsers, currentUser, now,
          error, faults>>

-----------------------------------------------------------------------------
(* JavaScript numbers: NaN, or an exact rational n/d in lowest terms.       *)

RECURSIVE GCD(_, _)
GCD(a, b) == IF b = 0 THEN a ELSE GCD(b, a % b)

Abs(i) == IF i < 0 THEN -i ELSE i

NaN == [nan |-> TRUE, n |-> 0, d |-> 1]

Rat(n, d) ==
    LET g == GCD(Abs(n), d)
    IN  [nan |-> FALSE, n |-> n \div g, d |-> d \div g]

Num(i) == [nan |-> FALSE, n |-> i, d |-> 1]

NumAdd(a, b) ==
    IF a.nan \/ b.nan THEN NaN
    ELSE LET g == GCD(a.d, b.d)
         IN  Rat(a.n * (b.d \div g) + b.n * (a.d \div g), (a.d \div g) * b.d)

NumNeg(a) == IF a.nan THEN NaN ELSE [nan |-> FALSE, n |-> -a.n, d |-> a.d]

NumSub(a, b) == NumAdd(a, NumNeg(b))

NumMul(a, b) ==
    IF a.nan \/ b.nan THEN NaN
    ELSE LET g1 == GCD(Abs(a.n), b.d)
             g2 == GCD(Abs(b.n), a.d)
         IN  Rat((a.n \div g1) * (b.n \div g2), (a.d \div g2) * (b.d \div g1))

\* a / b; the code only divides by 100 and by counts it has tested positive
NumDiv(a, b) ==
    IF a.nan \/ b.nan \/ b.n = 0 THEN NaN
    ELSE IF b.n > 0 THEN NumMul(a, [nan |-> FALSE, n |-> b.d, d |-> b.n])
    ELSE NumMul(a, [nan |-> FALSE, n |-> -b.d, d |-> -b.n])

\* Math.pow(x, 2)
Pow2(a) == NumMul(a, a)

\* a < b; any comparison with NaN is false
NumLt(a, b) == ~a.nan /\ ~b.nan /\ a.n * b.d < b.n * a.d

NumLe(a, b) == ~a.nan /\ ~b.nan /\ a.n * b.d <= b.n * a.d

\* Number.prototype.toFixed(k) with scale = 10^k: the nearest multiple of
\* 1/scale, the larger one on a tie; "NaN" for NaN
ToFixed(a, scale) ==
    IF a.nan THEN NaN
    ELSE Rat((2 * a.n * scale + a.d) \div (2 * a.d), scale)

-----------------------------------------------------------------------------
(* JavaScript values held in question.resolution: true, false, a string,   *)
(* or null.                                                                *)

JsBool(b) == [tag |-> "bool", s |-> IF b THEN "true" ELSE "false"]
JsStr(s) == [tag |-> "str", s |-> s]
JsNull == [tag |-> "null", s |-> ""]

\* truthiness, as in `resolution ? 1 : 0`
Truthy(v) == \/ v.tag = "bool" /\ v.s = "true"
             \/ v.tag = "str" /\ v.s # ""

\* v === k for a string k
StrictEqStr(v, k) == v.tag = "str" /\ v.s = k

(* A forecast value is an object: its own keys in insertion order, each     *)
(* with an integer value.                                                  *)

Pair(k, v) == [key |-> k, val |-> v]

HasKey(f, k) == \E i \in 1..Len(f) : f[i].key = k

Val(f, k) == f[CHOOSE i \in 1..Len(f) : f[i].key = k].val

\* Object.keys(f)
ObjectKeys(f) == [i \in 1..Len(f) |-> f[i].key]

\* f[k] used as a number: undefined becomes NaN
Field(f, k) == IF HasKey(f, k) THEN Num(Val(f, k)) ELSE NaN

\* (f[k] || 0)
FieldOrZero(f, k) == IF HasKey(f, k) THEN Num(Val(f, k)) ELSE Num(0)

RECURSIVE SumSq(_, _, _)
\* probs.reduce((sum, prob, i) => sum + Math.pow(prob - outcomes[i], 2), 0)
SumSq(probs, outcomes, i) ==
    IF i = 0 THEN Num(0)
    ELSE NumAdd(SumSq(probs, outcomes, i - 1),
                Pow2(NumSub(probs[i], Num(outcomes[i]))))

-----------------------------------------------------------------------------
(* calculateBrierScore, App.js:10-39                                        *)

\* the binary branch with the division by 100 forgotten
BrierBinaryRaw(forecast, resolution) ==
    LET p == Field(forecast, "probability")
        outcome == IF Truthy(resolution) THEN 1 ELSE 0
    IN  NumAdd(Pow2(NumSub(p, Num(outcome))),
               Pow2(NumSub(NumSub(Num(1), p), Num(1 - outcome))))

\* the binary branch scoring the "yes" arm only
BrierBinaryOneTerm(forecast, resolution) ==
    LET p == NumDiv(Field(forecast, "probability"), Num(100))
        outcome == IF Truthy(resolution) THEN 1 ELSE 0
    IN  Pow2(NumSub(p, Num(outcome)))

BrierBinary(forecast, resolution) ==
    LET p == NumDiv(Field(forecast, "probability"), Num(100))
        outcome == IF Truthy(resolution) THEN 1 ELSE 0
    IN  NumAdd(Pow2(NumSub(p, Num(outcome))),
               Pow2(NumSub(NumSub(Num(1), p), Num(1 - outcome))))

\* the three-category branch with its last test turned into a plain else
BrierThreeCategoryElseDecrease(forecast, resolution) ==
    LET probs == << NumDiv(Field(forecast, "increase"), Num(100)),
                    NumDiv(Field(forecast, "unchanged"), Num(100)),
                    NumDiv(Field(forecast, "decrease"), Num(100)) >>
        outcomes == IF StrictEqStr(resolution, "increase") THEN <<1, 0, 0>>
                    ELSE IF StrictEqStr(resolution, "unchanged") THEN <<0, 1, 0>>
                    ELSE <<0, 0, 1>>
    IN  SumSq(probs, outcomes, 3)

BrierThreeCategory(forecast, resolution) ==
    LET probs == << NumDiv(Field(forecast, "increase"), Num(100)),
                    NumDiv(Field(forecast, "unchanged"), Num(100)),
                    NumDiv(Field(forecast, "decrease"), Num(100)) >>
        outcomes == IF StrictEqStr(resolution, "increase") THEN <<1, 0, 0>>
                    ELSE IF StrictEqStr(resolution, "unchanged") THEN <<0, 1, 0>>
                    ELSE IF StrictEqStr(resolution, "decrease") THEN <<0, 0, 1>>
                    ELSE <<0, 0, 0>>
    IN  SumSq(probs, outcomes, 3)

BrierMultipleChoice(forecast, resolution) ==
    LET options == ObjectKeys(forecast)
        probs == [i \in 1..Len(options) |->
                     NumDiv(FieldOrZero(forecast, options[i]), Num(100))]
        outcomes == [i \in 1..Len(options) |->
                        IF StrictEqStr(resolution, options[i]) THEN 1 ELSE 0]
    IN  SumSq(probs, outcomes, Len(options))

calculateBrierScore(forecast, resolution, questionType) ==
    IF questionType = "binary" THEN BrierBinary(forecast, resolution)
    ELSE IF questionType = "three-category"
         THEN BrierThreeCategory(forecast, resolution)
    ELSE IF questionType = "multiple-choice"
         THEN BrierMultipleChoice(forecast, resolution)
    ELSE Num(0)

-----------------------------------------------------------------------------
(* Dates.  A date field is Null or Some(ms since the epoch).                *)

Null == <<>>
Some(t) == <<t>>

\* a || b on date fields
OrElse(a, b) == IF a # Null THEN a ELSE b

\* new Date(x), as milliseconds; new Date(null) is the epoch
NewDate(x) == IF x = Null THEN 0 ELSE x[1]

MsPerDay == 1000 * 60 * 60 * 24

-----------------------------------------------------------------------------
(* calculateTimeWeightedBrier, App.js:44-76                                 *)

\* the window end of item i: the next item's creation time, or the
\* resolution date for the last item
windowEnd(forecastHistory, question, i) ==
    IF i < Len(forecastHistory)
    THEN NewDate(OrElse(forecastHistory[i + 1].created_at,
                        forecastHistory[i + 1].updated_at))
    ELSE NewDate(OrElse(question.resolvedDate,
                        OrElse(question.resolved_date, question.close_date)))

\* daysActive without the clamp to one day
daysActiveUnclamped(forecastHistory, question, i) ==
    LET start == NewDate(OrElse(forecastHistory[i].created_at,
                                forecastHistory[i].updated_at))
        end == windowEnd(forecastHistory, question, i)
    IN  ((end - start) \div MsPerDay) + 1

\* daysActive without the inclusive + 1
daysActiveExclusive(forecastHistory, question, i) ==
    LET start == NewDate(OrElse(forecastHistory[i].created_at,
                                forecastHistory[i].updated_at))
        end == windowEnd(forecastHistory, question, i)
        d == (end - start) \div MsPerDay
    IN  IF d < 1 THEN 1 ELSE d

daysActive(forecastHistory, question, i) ==
    LET start == NewDate(OrElse(forecastHistory[i].created_at,
                                forecastHistory[i].updated_at))
        end == windowEnd(forecastHistory, question, i)
        d == ((end - start) \div MsPerDay) + 1
    IN  IF d < 1 THEN 1 ELSE d

RECURSIVE twLoop(_, _, _)
\* the accumulators total and totalDays after the first i iterations
twLoop(forecastHistory, question, i) ==
    IF i = 0 THEN [total |-> Num(0), totalDays |-> 0]
    ELSE LET acc == twLoop(forecastHistory, question, i - 1)
             days == daysActive(forecastHistory, question, i)
             brier == calculateBrierScore(forecastHistory[i].forecast,
                                          question.resolution, question.type)
         IN  [total |-> NumAdd(acc.total, NumMul(brier, Num(days))),
              totalDays |-> acc.totalDays + days]

\* the weighted total returned without the division by totalDays
timeWeightedTotal(forecastHistory, question) ==
    IF ~question.isResolved \/ Len(forecastHistory) = 0 THEN Num(0)
    ELSE twLoop(forecastHistory, question, Len(forecastHistory)).total

\* the quotient total / totalDays returned without the two tests for an
\* empty history
timeWeightedUnguarded(forecastHistory, question) ==
    LET acc == twLoop(forecastHistory, question, Len(forecastHistory))
    IN  NumDiv(acc.total, Num(acc.totalDays))

calculateTimeWeightedBrier(forecastHistory, question) ==
    IF ~question.isResolved \/ Len(forecastHistory) = 0 THEN Num(0)
    ELSE LET acc == twLoop(forecastHistory, question, Len(forecastHistory))
         IN  IF acc.totalDays > 0
             THEN NumDiv(acc.total, Num(acc.totalDays))
             ELSE Num(0)

-----------------------------------------------------------------------------
(* The history getUserStats builds for one question, App.js:669-673         *)

RECURSIVE insertByCreatedAt(_, _)
\* insert row f after every row that does not compare greater (stable)
insertByCreatedAt(sorted, f) ==
    IF sorted = <<>> THEN <<f>>
    ELSE IF NewDate(sorted[Len(sorted)].created_at) - NewDate(f.created_at) > 0
         THEN Append(insertByCreatedAt(SubSeq(sorted, 1, Len(sorted) - 1), f),
                     sorted[Len(sorted)])
         ELSE Append(sorted, f)

RECURSIVE sortByCreatedAtUpTo(_, _)
sortByCreatedAtUpTo(rows, n) ==
    IF n = 0 THEN <<>>
    ELSE insertByCreatedAt(sortByCreatedAtUpTo(rows, n - 1), rows[n])

\* the history left in the order of the snapshot
unsortedHistory(rows) == rows

\* .sort((a, b) => new Date(a.created_at) - new Date(b.created_at))
sortByCreatedAt(rows) == sortByCreatedAtUpTo(rows, Len(rows))

\* the time-weighted score of one question from the user's rows for it
questionScore(rows, question) ==
    calculateTimeWeightedBrier(sortByCreatedAt(rows), question)

-----------------------------------------------------------------------------
(* getUserStats, App.js:651-698.  The component state questions and         *)
(* forecasts it closes over are the parameters qs and fs.                   *)

RECURSIVE reduceMax(_, _, _)
\* Object.keys(data).reduce((a, b) => (data[a] > data[b] ? a : b)) over the
\* first i keys, i >= 1
reduceMax(data, keys, i) ==
    IF i = 1 THEN keys[1]
    ELSE LET a == reduceMax(data, keys, i - 1)
             b == keys[i]
         IN  IF Val(data, a) > Val(data, b) THEN a ELSE b

\* reduce without an initial value throws a TypeError on an empty array
predictionThrows(question, lastForecast) ==
    /\ question.type \in {"three-category", "multiple-choice"}
    /\ lastForecast.forecast = <<>>

\* whether the last forecast counts as a correct prediction
isCorrect(question, lastForecast) ==
    IF question.type = "binary"
    THEN LET predicted == /\ HasKey(lastForecast.forecast, "probability")
                          /\ Val(lastForecast.forecast, "probability") > 50
         IN  JsBool(predicted) = question.resolution
    ELSE IF question.type \in {"three-category", "multiple-choice"}
    THEN LET data == lastForecast.forecast
             predicted == reduceMax(data, ObjectKeys(data), Len(data))
         IN  StrictEqStr(question.resolution, predicted)
    ELSE FALSE

Threw == [threw |-> TRUE, brierScore |-> NaN, questionsAnswered |-> 0,
          accuracy |-> NaN]

\* every row of the snapshot, whoever made it
allForecasts(userId, fs) == fs

\* forecasts.filter(f => f.user_id === userId)
userForecastsOf(userId, fs) == SelectSeq(fs, LAMBDA f : f.user_id = userId)

\* the resolved questions the user has a forecast on, App.js:653-657
answeredQuestionsOf(userForecasts, qs) ==
    SelectSeq(SelectSeq(qs, LAMBDA q : q.isResolved),
              LAMBDA q : \E i \in 1..Len(userForecasts) :
                             userForecasts[i].question_id = q.id)

\* the number of the user's rows, one per forecast
countForecastRows(userForecasts) == Len(userForecasts)

\* new Set(userForecasts.map(f => f.question_id)).size
uniqueQuestionsAnswered(userForecasts) ==
    Cardinality({userForecasts[i].question_id : i \in 1..Len(userForecasts)})

\* the total divided by the number of the user's forecasts on the answered
\* questions instead of the number of questions
averagePerForecast(totalBrierScore, answeredQuestions, userForecasts) ==
    LET rows == SelectSeq(userForecasts,
                          LAMBDA f : \E i \in 1..Len(answeredQuestions) :
                                         answeredQuestions[i].id = f.question_id)
    IN  ToFixed(NumDiv(totalBrierScore, Num(Len(rows))), 1000)

\* (totalBrierScore / answeredQuestions.length).toFixed(3)
averageBrierScore(totalBrierScore, answeredQuestions, userForecasts) ==
    ToFixed(NumDiv(totalBrierScore, Num(Len(answeredQuestions))), 1000)

getUserStats(userId, qs, fs) ==
    LET userForecasts == userForecastsOf(userId, fs)
        answeredQuestions == answeredQuestionsOf(userForecasts, qs)
        n == Len(answeredQuestions)
        rowsFor(question) ==
            SelectSeq(userForecasts, LAMBDA f : f.question_id = question.id)
        history(question) == sortByCreatedAt(rowsFor(question))
        lastForecast(question) == history(question)[Len(history(question))]
        totalBrierScore[i \in 0..n] ==
            IF i = 0 THEN Num(0)
            ELSE NumAdd(totalBrierScore[i - 1],
                        questionScore(rowsFor(answeredQuestions[i]),
                                      answeredQuestions[i]))
        correctPredictions[i \in 0..n] ==
            IF i = 0 THEN 0
            ELSE correctPredictions[i - 1]
                 + (IF isCorrect(answeredQuestions[i],
                                 lastForecast(answeredQuestions[i]))
                    THEN 1 ELSE 0)
    IN  IF n = 0
        THEN [threw |-> FALSE, brierScore |-> Num(0),
              questionsAnswered |-> uniqueQuestionsAnswered(userForecasts),
              accuracy |-> Num(0)]
        ELSE IF \E i \in 1..n :
                    predictionThrows(answeredQuestions[i],
                                     lastForecast(answeredQuestions[i]))
        THEN Threw
        ELSE [threw |-> FALSE,
              brierScore |-> averageBrierScore(totalBrierScore[n],
                                               answeredQuestions, userForecasts),
              questionsAnswered |-> uniqueQuestionsAnswered(userForecasts),
              accuracy |-> ToFixed(NumMul(NumDiv(Num(correctPredictions[n]),
                                                 Num(n)), Num(100)), 10)]

-----------------------------------------------------------------------------
(* getLeaderboard, App.js:700-707                                           *)

\* parseFloat(a.stats.brierScore) - parseFloat(b.stats.brierScore) > 0; a
\* NaN difference counts as 0
comparesGreater(a, b) == NumLt(b.stats.brierScore, a.stats.brierScore)

RECURSIVE insertByScore(_, _)
insertByScore(sorted, e) ==
    IF sorted = <<>> THEN <<e>>
    ELSE IF comparesGreater(sorted[Len(sorted)], e)
         THEN Append(insertByScore(SubSeq(sorted, 1, Len(sorted) - 1), e),
                     sorted[Len(sorted)])
         ELSE Append(sorted, e)

RECURSIVE sortByScoreUpTo(_, _)
sortByScoreUpTo(entries, n) ==
    IF n = 0 THEN <<>>
    ELSE insertByScore(sortByScoreUpTo(entries, n - 1), entries[n])

getLeaderboard(us, qs, fs) ==
    LET entries == [i \in 1..Len(us) |->
                       [id |-> us[i].id, stats |-> getUserStats(us[i].id, qs, fs)]]
    IN  IF \E i \in 1..Len(us) : entries[i].stats.threw
        THEN [threw |-> TRUE, rows |-> <<>>]
        ELSE [threw |-> FALSE, rows |-> sortByScoreUpTo(entries, Len(us))]

\* the comparator is inconsistent when a NaN score (which compares 0 with
\* everything) sits among scores that differ from each other
inconsistentComparator(entries) ==
    \E i, j, k \in 1..Len(entries) :
        /\ entries[i].stats.brierScore.nan
        /\ ~entries[j].stats.brierScore.nan
        /\ ~entries[k].stats.brierScore.nan
        /\ entries[j].stats.brierScore # entries[k].stats.brierScore

\* the orders Array.prototype.sort may leave the entries in: the stable
\* ascending order for a consistent comparator, an implementation-defined
\* order (some permutation) otherwise
leaderboardOutcomes(us, qs, fs) ==
    LET n == Len(us)
        entries == [i \in 1..n |->
                       [id |-> us[i].id, stats |-> getUserStats(us[i].id, qs, fs)]]
        perms == {p \in [1..n -> 1..n] : \A i, j \in 1..n : p[i] = p[j] => i = j}
    IN  IF \E i \in 1..n : entries[i].stats.threw
        THEN {[threw |-> TRUE, rows |-> <<>>]}
        ELSE IF inconsistentComparator(entries)
        THEN {[threw |-> FALSE, rows |-> [i \in 1..n |-> entries[p[i]]]] :
                 p \in perms}
        ELSE {getLeaderboard(us, qs, fs)}

-----------------------------------------------------------------------------
(* normalizeForecast of ForecastForm, App.js:1428-1434                      *)

normalizeForecast(f) ==
    IF HasKey(f, "remain unchanged") /\ ~HasKey(f, "unchanged")
    THEN Append(f, Pair("unchanged", Val(f, "remain unchanged")))
    ELSE f

-----------------------------------------------------------------------------
(* Input domains                                                           *)

NLevels == 10
MaxTick == 4
MaxHist == 2

\* the probabilities 0 .. 100 on a grid of NLevels steps
Prob(i) == (i * 100) \div NLevels
Levels == {Prob(i) : i \in 0..NLevels}

\* an object with key k (any value in S) or without it
OptKey(k, S) == {<<>>} \cup {<<Pair(k, v)>> : v \in S}

BinaryForecasts == OptKey("probability", Levels)

\* the middle value under the canonical key, under the label-derived key, or
\* absent
ThreeCategoryForecasts ==
    {a \o b \o c : a \in OptKey("increase", Levels),
                   b \in OptKey("unchanged", Levels)
                         \cup {<<Pair("remain unchanged", v)>> : v \in Levels},
                   c \in OptKey("decrease", Levels)}

ThreeCategoryResolutions ==
    {JsStr("increase"), JsStr("unchanged"), JsStr("decrease"),
     JsStr("remain unchanged"), JsNull}

MultipleChoiceForecasts ==
    {a \o b \o c : a \in OptKey("Technology", Levels),
                   b \in OptKey("Healthcare", Levels),
                   c \in OptKey("Energy", Levels)}

MultipleChoiceResolutions ==
    {JsStr("Technology"), JsStr("Healthcare"), JsStr("Energy"),
     JsStr("Manufacturing"), JsNull}

BinaryResolutions == {JsBool(TRUE), JsBool(FALSE), JsNull}

\* the clock ticks every two and a half days
StepMs == (5 * MsPerDay) \div 2
TimeAt(i) == i * StepMs
Times == {TimeAt(i) : i \in 0..MaxTick}

Row(u, q, f, t) ==
    [user_id |-> u, question_id |-> q, forecast |-> f,
     created_at |-> Some(t), updated_at |-> Some(t)]

HistoryProbabilities == {50, 70, 90}

HistoryRows ==
    {Row("u1", "q1", <<Pair("probability", p)>>, t) :
        p \in HistoryProbabilities, t \in Times}

Histories == UNION {[1..n -> HistoryRows] : n \in 0..MaxHist}

Question(id, type, isResolved, resolution, resolvedDate, closeDate) ==
    [id |-> id, type |-> type, isResolved |-> isResolved,
     is_resolved |-> isResolved, resolution |-> resolution,
     resolvedDate |-> resolvedDate, resolved_date |-> resolvedDate,
     close_date |-> closeDate]

HistoryQuestions ==
    {Question("q1", "binary", TRUE, r, Some(t), Some(t)) :
        r \in {JsBool(TRUE), JsBool(FALSE)}, t \in Times}
    \cup {Question("q1", "binary", FALSE, JsNull, Null, Some(TimeAt(MaxTick)))}

-----------------------------------------------------------------------------
(* Values of the variables a specification does not use                    *)

IdleBrier ==
    /\ qtype = "binary" /\ fc = <<>> /\ res = JsNull /\ score = Num(0)
IdleTW ==
    /\ hist = <<>> /\ tw = Num(0)
    /\ quest = Question("q1", "binary", FALSE, JsNull, Null, Null)
NoStats == [threw |-> FALSE, brierScore |-> Num(0), questionsAnswered |-> 0,
            accuracy |-> Num(0)]
NoBoard == [threw |-> FALSE, rows |-> <<>>]
IdleStats ==
    /\ stats = NoStats /\ board = NoBoard
IdleSnapshot ==
    /\ questions = <<>> /\ forecasts = <<>> /\ users = <<>>
IdleApp ==
    /\ dbQuestions = <<>> /\ dbForecasts = {} /\ dbUsers = <<>>
    /\ currentUser = [id |-> "", role |-> ""]
    /\ now = 0 /\ error = "" /\ faults = 0

brierVars == <<qtype, fc, res, score>>
twVars == <<hist, quest, tw>>
statsVars == <<stats, board>>
snapshotVars == <<questions, forecasts, users>>
appVars == <<dbQuestions, dbForecasts, dbUsers, currentUser, now, error, faults>>

-----------------------------------------------------------------------------
(* SpecBrier: calculateBrierScore on one forecast                           *)

\* the snapshot holding the one question and the one forecast of user u1
OneQuestion ==
    << Question("q1", qtype, TRUE, res, Some(TimeAt(MaxTick)),
                Some(TimeAt(MaxTick))) >>
OneForecast(f) == << Row("u1", "q1", f, 0) >>
TwoUsers == << [id |-> "u1"], [id |-> "u2"] >>

InitBrier ==
    /\ pc = "input"
    /\ \/ qtype = "binary" /\ fc \in BinaryForecasts /\ res \in BinaryResolutions
       \/ /\ qtype = "three-category"
          /\ fc \in ThreeCategoryForecasts
          /\ res \in ThreeCategoryResolutions
       \/ /\ qtype = "multiple-choice"
          /\ fc \in MultipleChoiceForecasts
          /\ res \in MultipleChoiceResolutions
    /\ score = Num(0)
    /\ IdleTW /\ IdleStats /\ IdleSnapshot /\ IdleApp

\* the form takes the stored forecast through normalizeForecast
Normalize ==
    /\ pc = "input"
    /\ fc' = normalizeForecast(fc)
    /\ pc' = "normalized"
    /\ UNCHANGED <<qtype, res, score, twVars, statsVars, snapshotVars, appVars>>

Score ==
    /\ pc \in {"input", "normalized"}
    /\ score' = calculateBrierScore(fc, res, qtype)
    /\ pc' = "scored"
    /\ UNCHANGED <<qtype, fc, res, twVars, statsVars, snapshotVars, appVars>>

\* the dashboard and the leaderboard over the one-question snapshot
ViewStats ==
    /\ pc \in {"input", "normalized"}
    /\ stats' = getUserStats("u1", OneQuestion, OneForecast(fc))
    /\ board' = getLeaderboard(TwoUsers, OneQuestion, OneForecast(fc))
    /\ pc' = "stats"
    /\ UNCHANGED <<brierVars, twVars, snapshotVars, appVars>>

NextBrier == Normalize \/ Score \/ ViewStats

SpecBrier == InitBrier /\ [][NextBrier]_vars

-----------------------------------------------------------------------------
(* SpecTW: calculateTimeWeightedBrier on one history                       *)

InitTW ==
    /\ pc = "input"
    /\ hist \in Histories
    /\ quest \in HistoryQuestions
    /\ tw = Num(0)
    /\ IdleBrier /\ IdleStats /\ IdleSnapshot /\ IdleApp

\* a direct call with the history as given
TimeWeight ==
    /\ pc = "input"
    /\ tw' = calculateTimeWeightedBrier(hist, quest)
    /\ pc' = "weighted"
    /\ UNCHANGED <<hist, quest, brierVars, statsVars, snapshotVars, appVars>>

\* the call getUserStats makes: the history sorted first
SortAndTimeWeight ==
    /\ pc = "input"
    /\ tw' = questionScore(hist, quest)
    /\ pc' = "sortedWeighted"
    /\ UNCHANGED <<hist, quest, brierVars, statsVars, snapshotVars, appVars>>

NextTW == TimeWeight \/ SortAndTimeWeight

SpecTW == InitTW /\ [][NextTW]_vars

-----------------------------------------------------------------------------
(* SpecBoard: getLeaderboard over a snapshot of MaxUsers users.  Question   *)
(* "q1" is binary and resolved true, "q2" is three-category and resolved    *)
(* "unchanged", "q3" is binary and open.                                    *)

MaxUsers == 4

BoardQuestions ==
    << Question("q1", "binary", TRUE, JsBool(TRUE), Some(TimeAt(MaxTick)),
                Some(TimeAt(MaxTick))),
       Question("q2", "three-category", TRUE, JsStr("unchanged"),
                Some(TimeAt(MaxTick)), Some(TimeAt(MaxTick))),
       Question("q3", "binary", FALSE, JsNull, Null, Some(TimeAt(MaxTick))) >>

\* what one user has forecast: nothing, the open question only, 90% or 50%
\* on q1, or q2 under the key an earlier version of the form wrote
UserProfiles == {"none", "open", "p90", "p50", "legacy"}

ProfileRows(u, profile) ==
    IF profile = "open" THEN << Row(u, "q3", <<Pair("probability", 70)>>, 0) >>
    ELSE IF profile = "p90"
         THEN << Row(u, "q1", <<Pair("probability", 90)>>, 0) >>
    ELSE IF profile = "p50"
         THEN << Row(u, "q1", <<Pair("probability", 50)>>, 0) >>
    ELSE IF profile = "legacy"
         THEN << Row(u, "q2", << Pair("increase", 30),
                                Pair("remain unchanged", 40),
                                Pair("decrease", 30) >>, 0) >>
    ELSE <<>>

RECURSIVE SnapshotRows(_, _)
\* the rows of users 1..n under the profile assignment prof
SnapshotRows(prof, n) ==
    IF n = 0 THEN <<>>
    ELSE SnapshotRows(prof, n - 1) \o ProfileRows(n, prof[n])

InitBoard ==
    /\ pc = "input"
    /\ questions = BoardQuestions
    /\ users = [i \in 1..MaxUsers |-> [id |-> i]]
    /\ \E prof \in [1..MaxUsers -> UserProfiles] :
          forecasts = SnapshotRows(prof, MaxUsers)
    /\ stats = NoStats
    /\ board = NoBoard
    /\ IdleBrier /\ IdleTW /\ IdleApp

\* the leaderboard view renders getLeaderboard()
ViewLeaderboard ==
    /\ pc = "input"
    /\ board' \in leaderboardOutcomes(users, questions, forecasts)
    /\ pc' = "board"
    /\ UNCHANGED <<stats, brierVars, twVars, snapshotVars, appVars>>

NextBoard == ViewLeaderboard

SpecBoard == InitBoard /\ [][NextBoard]_vars

-----------------------------------------------------------------------------
(* SpecStats: getUserStats("u1") as the forecasts snapshot changes.  The    *)
(* snapshot is what loadAppData last fetched; every reload that follows a   *)
(* change of the table by any client replaces it and the view renders       *)
(* again.  Question "q1" is binary, resolved true on day 10; "q2" is        *)
(* three-category and resolved; "q3" is binary and open.                    *)

MaxRows == 3

StatsResolutions == {JsStr("increase"), JsStr("unchanged")}

StatsQuestions(resolution) ==
    << Question("q1", "binary", TRUE, JsBool(TRUE), Some(4 * StepMs),
                Some(4 * StepMs)),
       Question("q2", "three-category", TRUE, resolution, Some(4 * StepMs),
                Some(4 * StepMs)),
       Question("q3", "binary", FALSE, JsNull, Null, Some(4 * StepMs)) >>

\* the forecast values of the rows: for q2 an ordinary forecast and one
\* whose first two keys tie for the maximum
StatsForecasts(q) ==
    IF q = "q2"
    THEN {<<Pair("increase", 30), Pair("unchanged", 40), Pair("decrease", 30)>>,
          <<Pair("increase", 50), Pair("unchanged", 50), Pair("decrease", 0)>>}
    ELSE IF q = "q1"
    THEN {<<Pair("probability", 50)>>, <<Pair("probability", 90)>>}
    ELSE {<<Pair("probability", 70)>>}

\* the rows a reload can bring: those of u1 on every question (on q2 created
\* on day 0 or day 5) and those of u2 on q1
StatsRows ==
    {Row("u1", "q2", f, t) : f \in StatsForecasts("q2"), t \in {0, 2 * StepMs}}
    \cup {Row(u, "q1", f, 0) : u \in {"u1", "u2"}, f \in StatsForecasts("q1")}
    \cup {Row("u1", "q3", f, 0) : f \in StatsForecasts("q3")}

InitStats ==
    /\ pc = "stats"
    /\ \E r \in StatsResolutions : questions = StatsQuestions(r)
    /\ users = << [id |-> "u1"], [id |-> "u2"] >>
    /\ forecasts = <<>>
    /\ stats = getUserStats("u1", questions, forecasts)
    /\ board = NoBoard
    /\ IdleBrier /\ IdleTW /\ IdleApp

\* setForecasts(forecastsResult.data) and the render that follows
Snapshot(rows) ==
    /\ forecasts' = rows
    /\ stats' = getUserStats("u1", questions, rows)
    /\ UNCHANGED <<pc, questions, users, board, brierVars, twVars, appVars>>

\* a reload after a row was inserted
ReloadInserted(row) ==
    /\ Len(forecasts) < MaxRows
    /\ Snapshot(Append(forecasts, row))

\* a reload after row k was deleted
ReloadDeleted(k) ==
    /\ k \in 1..Len(forecasts)
    /\ Snapshot(SubSeq(forecasts, 1, k - 1)
                \o SubSeq(forecasts, k + 1, Len(forecasts)))

\* a reload after the forecast of row k was overwritten
ReloadUpdated(k, f) ==
    /\ k \in 1..Len(forecasts)
    /\ f # forecasts[k].forecast
    /\ Snapshot([forecasts EXCEPT ![k].forecast = f])

NextStats ==
    \/ \E row \in StatsRows : ReloadInserted(row)
    \/ \E k \in 1..Len(forecasts) : ReloadDeleted(k)
    \/ \E k \in 1..Len(forecasts) :
          \E f \in StatsForecasts(forecasts[k].question_id) : ReloadUpdated(k, f)

SpecStats == InitStats /\ [][NextStats]_vars

-----------------------------------------------------------------------------
(* Spec: the app against the questions and forecasts tables.  One browser   *)
(* session; a user signs in, submits and revises forecasts, an admin        *)
(* resolves the question, the clock advances.                               *)

MaxClock == 1
MaxFaults == 1

NoUser == [id |-> "", role |-> ""]

\* the rows of public.users
DbUsers == << [id |-> "admin", role |-> "admin"],
              [id |-> "u1", role |-> "forecaster"] >>

\* the sample questions the component mounts with, App.js:228-279
sampleQuestions ==
    << Question("1", "binary", FALSE, JsNull, Null, Some(0)),
       Question("2", "three-category", FALSE, JsNull, Null, Some(0)),
       Question("3", "multiple-choice", FALSE, JsNull, Null, Some(0)) >>

\* a row of public.questions
DbQuestion(id, type, closeDate) ==
    [id |-> id, type |-> type, is_resolved |-> FALSE, resolution |-> JsNull,
     resolved_date |-> Null, close_date |-> closeDate]

\* the forecast values a user submits through the form
FormForecasts(type) ==
    IF type = "binary"
    THEN {<<Pair("probability", 50)>>, <<Pair("probability", 90)>>}
    ELSE {<<Pair("increase", 30), Pair("unchanged", 40), Pair("decrease", 30)>>,
          <<Pair("increase", 60), Pair("unchanged", 20), Pair("decrease", 20)>>}

\* the values the resolve buttons of QuestionManagementCard set,
\* App.js:2496-2531
CardResolutions(type) ==
    IF type = "binary" THEN {JsBool(TRUE), JsBool(FALSE)}
    ELSE {JsStr("increase"), JsStr("remain unchanged"), JsStr("decrease")}

\* new Date().toISOString().split('T')[0], as the midnight it denotes
Today(t) == (t \div MsPerDay) * MsPerDay

InitApp ==
    /\ pc = "app"
    /\ \E type \in {"binary", "three-category"} :
          dbQuestions = << DbQuestion("q1", type, Some(Today(TimeAt(MaxClock)))) >>
    /\ dbForecasts = {}
    /\ dbUsers = DbUsers
    /\ currentUser = NoUser
    /\ questions = sampleQuestions
    /\ forecasts = <<>>
    /\ users = <<>>
    /\ now = 0
    /\ error = ""
    /\ faults = 0
    /\ IdleBrier /\ IdleTW /\ IdleStats

\* the rows of the forecasts table in the order the select returns them
selectForecasts(rows) ==
    LET pairs == << <<"admin", "q1">>, <<"u1", "q1">> >>
        present == SelectSeq(pairs, LAMBDA p :
                       \E r \in rows : r.user_id = p[1] /\ r.question_id = p[2])
    IN  [i \in 1..Len(present) |->
            CHOOSE r \in rows : /\ r.user_id = present[i][1]
                                /\ r.question_id = present[i][2]]

\* loadAppData's test for a question past its close date, App.js:193
closesBy(q, t) ==
    /\ ~q.is_resolved
    /\ q.close_date # Null
    /\ NewDate(q.close_date) <= Today(t)

\* one entry of processed, App.js:189-209
processQuestion(q, t) ==
    [id |-> q.id, type |-> q.type, is_resolved |-> q.is_resolved,
     resolution |-> q.resolution, resolved_date |-> q.resolved_date,
     close_date |-> q.close_date,
     isResolved |-> IF closesBy(q, t) THEN TRUE ELSE q.is_resolved,
     resolvedDate |-> IF closesBy(q, t) THEN q.close_date ELSE q.resolved_date]

\* the update loadAppData sends for a question past its close date,
\* App.js:196-201; the questions policy lets only an admin's update through
autoResolveWrite(q, t, user) ==
    IF closesBy(q, t) /\ user.role = "admin"
    THEN [q EXCEPT !.is_resolved = TRUE, !.resolved_date = q.close_date]
    ELSE q

\* the comparator of processed.sort, App.js:211-216: a question without a
\* close date goes last
compareCloseDate(a, b) ==
    IF a.close_date = Null /\ b.close_date = Null THEN 0
    ELSE IF a.close_date = Null THEN 1
    ELSE IF b.close_date = Null THEN -1
    ELSE NewDate(a.close_date) - NewDate(b.close_date)

RECURSIVE insertByCloseDate(_, _)
\* insert q after every entry that does not compare greater (stable)
insertByCloseDate(sorted, q) ==
    IF sorted = <<>> THEN <<q>>
    ELSE IF compareCloseDate(sorted[Len(sorted)], q) > 0
         THEN Append(insertByCloseDate(SubSeq(sorted, 1, Len(sorted) - 1), q),
                     sorted[Len(sorted)])
         ELSE Append(sorted, q)

RECURSIVE sortByCloseDateUpTo(_, _)
sortByCloseDateUpTo(qs, n) ==
    IF n = 0 THEN <<>>
    ELSE insertByCloseDate(sortByCloseDateUpTo(qs, n - 1), qs[n])

\* processed, App.js:188-216: every row processed, then sorted
processedQuestions(dbq, t) ==
    sortByCloseDateUpTo([i \in 1..Len(dbq) |-> processQuestion(dbq[i], t)],
                        Len(dbq))

\* loadAppData with the questions processed and set before the results of
\* the other selects are tested
loadAppDataPartial(dbq, dbf, dbu, user, fetched) ==
    /\ questions' = processedQuestions(dbq, now)
    /\ dbQuestions' = [i \in 1..Len(dbq) |-> autoResolveWrite(dbq[i], now, user)]
    /\ dbForecasts' = dbf
    /\ dbUsers' = dbu
    /\ IF fetched
       THEN forecasts' = selectForecasts(dbf) /\ users' = dbu
       ELSE error' = "Failed to load data" /\ UNCHANGED <<forecasts, users>>

\* loadAppData, App.js:172-225, on the tables dbq, dbf and dbu; fetched is
\* false when one of the three selects returns an error
loadAppData(dbq, dbf, dbu, user, fetched) ==
    IF fetched
    THEN /\ questions' = processedQuestions(dbq, now)
         /\ forecasts' = selectForecasts(dbf)
         /\ users' = dbu
         /\ dbQuestions' = [i \in 1..Len(dbq) |-> autoResolveWrite(dbq[i], now, user)]
         /\ dbForecasts' = dbf
         /\ dbUsers' = dbu
    ELSE /\ error' = "Failed to load data"
         /\ dbQuestions' = dbq
         /\ dbForecasts' = dbf
         /\ dbUsers' = dbu
         /\ UNCHANGED <<questions, forecasts, users>>

\* a backend call returns an error at most MaxFaults times in a run
Backend(ok1, ok2) ==
    LET failed == (IF ok1 THEN 0 ELSE 1) + (IF ok1 /\ ~ok2 THEN 1 ELSE 0)
    IN  /\ faults + failed <= MaxFaults
        /\ faults' = faults + failed

\* sign-in: the auth listener sets the user and loads the data, App.js:147-155
Login(u, fetched) ==
    /\ currentUser = NoUser
    /\ currentUser' = u
    /\ Backend(TRUE, fetched)
    /\ loadAppData(dbQuestions, dbForecasts, dbUsers, u, fetched)
    /\ (fetched => error' = error)
    /\ UNCHANGED <<pc, now, brierVars, twVars, statsVars>>

\* sign-out, App.js:156-163
Logout ==
    /\ currentUser # NoUser
    /\ currentUser' = NoUser
    /\ questions' = <<>> /\ forecasts' = <<>> /\ users' = <<>>
    /\ UNCHANGED <<pc, now, error, faults, dbQuestions, dbForecasts, dbUsers, brierVars,
                   twVars, statsVars>>

\* a plain insert: what the write would be without onConflict and without
\* the unique index
insertForecast(rows, userId, questionId, forecastVector, t) ==
    rows \cup {[user_id |-> userId, question_id |-> questionId,
                forecast |-> forecastVector, created_at |-> Some(t),
                updated_at |-> Some(t)]}

\* the upsert on (user_id, question_id), App.js:717-727, against the unique
\* index forecasts_user_question_idx: an existing row keeps its created_at
upsertForecast(rows, userId, questionId, forecastVector, t) ==
    IF \E r \in rows : r.user_id = userId /\ r.question_id = questionId
    THEN {IF r.user_id = userId /\ r.question_id = questionId
          THEN [r EXCEPT !.forecast = forecastVector, !.updated_at = Some(t)]
          ELSE r : r \in rows}
    ELSE rows \cup {[user_id |-> userId, question_id |-> questionId,
                     forecast |-> forecastVector, created_at |-> Some(t),
                     updated_at |-> Some(t)]}

\* onSubmitForecast(questionId, forecastVector), App.js:709-743: the upsert,
\* then the reload
storeForecast(questionId, forecastVector, stored, fetched) ==
    /\ Backend(stored, fetched)
    /\ IF stored
       THEN /\ loadAppData(dbQuestions,
                           upsertForecast(dbForecasts, currentUser.id,
                                          questionId, forecastVector, now),
                           dbUsers, currentUser, fetched)
            /\ (fetched => error' = "")
       ELSE /\ error' = "Submit failed"
            /\ UNCHANGED <<questions, forecasts, users, dbQuestions, dbForecasts,
                           dbUsers>>

\* the form of an open question submits, App.js:1511-1521 and 709-743
onSubmitForecast(i, forecastVector, stored, fetched) ==
    /\ currentUser # NoUser
    /\ i \in 1..Len(questions)
    /\ ~questions[i].isResolved
    /\ forecastVector \in FormForecasts(questions[i].type)
    /\ storeForecast(questions[i].id, forecastVector, stored, fetched)
    /\ UNCHANGED <<pc, now, currentUser, brierVars, twVars, statsVars>>

\* the row of questionId with the admin's resolution, App.js:606-610
resolvedRow(q, questionId, resolution, t) ==
    IF q.id = questionId
    THEN [q EXCEPT !.is_resolved = TRUE, !.resolution = resolution,
                   !.resolved_date = Some(Today(t))]
    ELSE q

\* the admin card resolves an open question, App.js:2416-2423 and 576-620
resolveQuestion(i, resolution, fetched) ==
    /\ currentUser # NoUser
    /\ i \in 1..Len(questions)
    /\ ~questions[i].isResolved
    /\ resolution \in CardResolutions(questions[i].type)
    /\ Truthy(resolution)
    /\ IF currentUser.role # "admin"
       THEN /\ error' = "Only admins can resolve questions"
            /\ fetched
            /\ UNCHANGED <<questions, forecasts, users, dbQuestions, dbForecasts,
                           dbUsers, faults>>
       ELSE /\ Backend(TRUE, fetched)
            /\ loadAppData([k \in 1..Len(dbQuestions) |->
                               resolvedRow(dbQuestions[k], questions[i].id,
                                           resolution, now)],
                           dbForecasts, dbUsers, currentUser, fetched)
            /\ (fetched => error' = "")
    /\ UNCHANGED <<pc, now, currentUser, brierVars, twVars, statsVars>>

\* the clock advances
Tick ==
    /\ now < TimeAt(MaxClock)
    /\ now' = now + StepMs
    /\ UNCHANGED <<pc, questions, forecasts, users, dbQuestions, dbForecasts, dbUsers,
                   currentUser, error, faults, brierVars, twVars, statsVars>>

Next ==
    \/ \E u \in {DbUsers[k] : k \in 1..Len(DbUsers)}, fetched \in BOOLEAN :
          Login(u, fetched)
    \/ Logout
    \/ \E i \in 1..Len(questions), stored, fetched \in BOOLEAN :
          \E v \in FormForecasts(questions[i].type) :
              onSubmitForecast(i, v, stored, fetched)
    \/ \E i \in 1..Len(questions), fetched \in BOOLEAN :
          \E r \in CardResolutions(questions[i].type) :
              resolveQuestion(i, r, fetched)
    \/ Tick

Spec == InitApp /\ [][Next]_vars

-----------------------------------------------------------------------------
(* SpecForm: the ForecastForm of one open question "q1", App.js:1415-1721,  *)
(* used by the signed-in forecaster u1: the fields are edited, the form is  *)
(* submitted, the reload brings the stored forecast back into the form.     *)

\* question.options of the multiple-choice question
formOptions == <<"Technology", "Healthcare", "Energy">>

\* the keys the inputs of the form write, App.js:1635, 1645 and 1688; the
\* categories are "Increase", "Remain Unchanged", "Decrease"
formKeys(type) ==
    IF type = "binary" THEN <<"probability">>
    ELSE IF type = "three-category" THEN <<"increase", "unchanged", "decrease">>
    ELSE formOptions

\* the values typed into a field
FieldValues == {0, 30, 40, 60}

\* the forecast u1 already has in the table, if any: one the form wrote, or
\* for the three-category question one under the key category.toLowerCase()
\* that an earlier version of the form wrote
ExistingForecasts(type) ==
    IF type = "binary" THEN {<<Pair("probability", 60)>>}
    ELSE IF type = "three-category"
    THEN {<<Pair("increase", 30), Pair("unchanged", 40), Pair("decrease", 30)>>,
          <<Pair("increase", 30), Pair("remain unchanged", 40),
            Pair("decrease", 30)>>}
    ELSE {<<Pair("Technology", 40), Pair("Healthcare", 30), Pair("Energy", 30)>>}

\* forecasts.find(f => f.question_id === question.id && f.user_id ===
\* currentUser.id), App.js:1420-1422
existingForecast(fs, questionId, userId) ==
    SelectSeq(fs, LAMBDA f : f.question_id = questionId /\ f.user_id = userId)

\* the initial state of the form, App.js:1464-1482
initialForecast(fs, question, userId) ==
    LET existing == existingForecast(fs, question.id, userId)
    IN  IF existing # <<>> THEN normalizeForecast(existing[1].forecast)
        ELSE IF question.type = "binary" THEN <<Pair("probability", 50)>>
        ELSE IF question.type = "three-category"
        THEN <<Pair("increase", 33), Pair("unchanged", 34), Pair("decrease", 33)>>
        ELSE IF question.type = "multiple-choice"
        THEN LET evenSplit == 100 \div Len(formOptions)
                 remainder == 100 - evenSplit * Len(formOptions)
             IN  [i \in 1..Len(formOptions) |->
                     Pair(formOptions[i],
                          IF i = 1 THEN evenSplit + remainder ELSE evenSplit)]
        ELSE <<>>

\* { ...forecast, [key]: newValue }
objectSet(f, key, newValue) ==
    IF HasKey(f, key)
    THEN [i \in 1..Len(f) |-> IF f[i].key = key THEN Pair(key, newValue) ELSE f[i]]
    ELSE Append(f, Pair(key, newValue))

RECURSIVE formTotal(_, _)
\* Object.values(forecast).reduce((sum, val) => sum + (Number(val) || 0), 0)
\* over the first i values
formTotal(forecast, i) ==
    IF i = 0 THEN 0 ELSE formTotal(forecast, i - 1) + forecast[i].val

\* the validation with the test for the total left out
isValidAlways(forecast, type) == TRUE

\* isValid, App.js:1505-1507
isValid(forecast, type) ==
    LET total == formTotal(forecast, Len(forecast))
        requiresTotal == type \in {"three-category", "multiple-choice"}
    IN  ~requiresTotal \/ total = 100

InitForm ==
    /\ pc = "form"
    /\ currentUser = DbUsers[2]
    /\ \E type \in {"binary", "three-category", "multiple-choice"} :
          /\ dbQuestions = << DbQuestion("q1", type, Null) >>
          /\ \/ dbForecasts = {}
             \/ \E f \in ExistingForecasts(type) :
                   dbForecasts = {Row("u1", "q1", f, 0)}
    /\ questions = [i \in 1..Len(dbQuestions) |-> processQuestion(dbQuestions[i], 0)]
    /\ forecasts = selectForecasts(dbForecasts)
    /\ dbUsers = DbUsers
    /\ users = dbUsers
    /\ fc = initialForecast(forecasts, questions[1], currentUser.id)
    /\ now = 0 /\ error = "" /\ faults = 0
    /\ qtype = "binary" /\ res = JsNull /\ score = Num(0)
    /\ IdleTW /\ IdleStats

\* onChange of the input of key, App.js:1635, 1656-1659 and 1686-1689
setField(key, newValue) ==
    /\ \E k \in 1..Len(formKeys(questions[1].type)) :
          key = formKeys(questions[1].type)[k]
    /\ fc' = IF questions[1].type = "binary" THEN <<Pair("probability", newValue)>>
             ELSE objectSet(fc, key, newValue)
    /\ fc' # fc
    /\ pc' = "editing"
    /\ UNCHANGED <<qtype, res, score, twVars, statsVars, snapshotVars, appVars>>

\* handleSubmit, App.js:1511-1521: an invalid form returns at once; a valid
\* one is handed to onSubmitForecast, and when the reload brings a new
\* existingForecast the effect of App.js:1485-1503 resets the form to it
handleSubmit(stored, fetched) ==
    IF ~isValid(fc, questions[1].type)
    THEN /\ pc' = "rejected"
         /\ UNCHANGED <<fc, qtype, res, score, twVars, statsVars, snapshotVars,
                        appVars>>
    ELSE /\ storeForecast(questions[1].id, fc, stored, fetched)
         /\ pc' = IF stored THEN "submitted" ELSE "failed"
         /\ fc' = IF stored /\ fetched
                  THEN initialForecast(forecasts', questions'[1], currentUser.id)
                  ELSE fc
         /\ UNCHANGED <<qtype, res, score, now, currentUser, twVars, statsVars>>

NextForm ==
    \/ \E k \in 1..Len(formKeys(questions[1].type)), v \in FieldValues :
          setField(formKeys(questions[1].type)[k], v)
    \/ \E stored, fetched \in BOOLEAN : handleSubmit(stored, fetched)

SpecForm == InitForm /\ [][NextForm]_vars

-----------------------------------------------------------------------------
(* SpecInput: the ForecastForm of SpecForm with values typed into the       *)
(* number inputs that lie outside 0..100, and the submit button clicked.    *)

\* the values typed into a field: parseInt keeps the sign and the size
TypedValues == {-50, 0, 50, 100, 150}

\* value={forecast[key] || 0}, App.js:1634, 1655 and 1685
inputValue(forecast, key) == IF HasKey(forecast, key) THEN Val(forecast, key) ELSE 0

\* the form submitted as with noValidate, whatever the inputs hold
constraintsValidAlways(forecast, type) == TRUE

\* the constraint validation of the form's inputs, type="number" min="0"
\* max="100" (App.js:1631-1633, 1652-1654 and 1682-1684): the submit event
\* is dispatched only when the value of every input is within its range
constraintsValid(forecast, type) ==
    \A k \in 1..Len(formKeys(type)) :
        /\ inputValue(forecast, formKeys(type)[k]) >= 0
        /\ inputValue(forecast, formKeys(type)[k]) <= 100

\* the submit button is clicked, App.js:1703-1709: the inputs are validated,
\* then the submit event runs handleSubmit
clickSubmit(stored, fetched) ==
    /\ constraintsValid(fc, questions[1].type)
    /\ handleSubmit(stored, fetched)

NextInput ==
    \/ \E k \in 1..Len(formKeys(questions[1].type)), v \in TypedValues :
          setField(formKeys(questions[1].type)[k], v)
    \/ \E stored, fetched \in BOOLEAN : clickSubmit(stored, fetched)

SpecInput == InitForm /\ [][NextInput]_vars

-----------------------------------------------------------------------------
(* SpecStore: MaxSessions browser sessions submit forecasts on the open     *)
(* binary question "q1" concurrently.  Here pc, currentUser, questions,     *)
(* forecasts, users and error hold one value per session.  onSubmitForecast *)
(* is split at its two awaits: the upsert, which the database applies       *)
(* atomically, and loadAppData; the steps of the sessions interleave.       *)

MaxSessions == 2

Sessions == 1..MaxSessions

InitStore ==
    /\ pc = [s \in Sessions |-> "idle"]
    /\ currentUser \in {u \in [Sessions -> {DbUsers[1], DbUsers[2]}] :
                           u[1] = DbUsers[2]}
    /\ dbQuestions = << DbQuestion("q1", "binary", Null) >>
    /\ dbForecasts = {}
    /\ dbUsers = DbUsers
    /\ questions = [s \in Sessions |-> << processQuestion(dbQuestions[1], 0) >>]
    /\ forecasts = [s \in Sessions |-> <<>>]
    /\ users = [s \in Sessions |-> DbUsers]
    /\ error = [s \in Sessions |-> ""]
    /\ now = 0 /\ faults = 0
    /\ IdleBrier /\ IdleTW /\ IdleStats

\* session s calls onSubmitForecast: setError(''), then the upsert,
\* App.js:709-731; a failed upsert ends the handler
sendUpsert(s, forecastVector, stored) ==
    /\ pc[s] = "idle"
    /\ ~questions[s][1].isResolved
    /\ Backend(stored, TRUE)
    /\ IF stored
       THEN /\ dbForecasts' = upsertForecast(dbForecasts, currentUser[s].id,
                                             questions[s][1].id, forecastVector,
                                             now)
            /\ pc' = [pc EXCEPT ![s] = "reload"]
            /\ error' = [error EXCEPT ![s] = ""]
       ELSE /\ error' = [error EXCEPT ![s] = "Submit failed"]
            /\ UNCHANGED <<pc, dbForecasts>>
    /\ UNCHANGED <<questions, forecasts, users, dbQuestions, dbUsers, currentUser, now,
                   brierVars, twVars, statsVars>>

\* session s goes on with loadAppData, App.js:735 and 172-225
reloadSession(s, fetched) ==
    /\ pc[s] = "reload"
    /\ Backend(TRUE, fetched)
    /\ pc' = [pc EXCEPT ![s] = "idle"]
    /\ IF fetched
       THEN /\ questions' = [questions EXCEPT
                                ![s] = [i \in 1..Len(dbQuestions) |->
                                           processQuestion(dbQuestions[i], now)]]
            /\ forecasts' = [forecasts EXCEPT ![s] = selectForecasts(dbForecasts)]
            /\ users' = [users EXCEPT ![s] = dbUsers]
            /\ UNCHANGED error
       ELSE /\ error' = [error EXCEPT ![s] = "Failed to load data"]
            /\ UNCHANGED <<questions, forecasts, users>>
    /\ UNCHANGED <<dbQuestions, dbForecasts, dbUsers, currentUser, now, brierVars, twVars,
                   statsVars>>

NextStore ==
    \/ \E s \in Sessions, v \in FormForecasts("binary"), stored \in BOOLEAN :
          sendUpsert(s, v, stored)
    \/ \E s \in Sessions, fetched \in BOOLEAN : reloadSession(s, fetched)

SpecStore == InitStore /\ [][NextStore]_vars

-----------------------------------------------------------------------------
(* SpecAdmin: the admin panel of one signed-in session against the          *)
(* questions and users tables: questions are created, edited, resolved and  *)
(* deleted, users are invited and deleted.  The signed-in user is the admin *)
(* or the forecaster u1; pc holds the value the last handler returned.      *)

MaxQuestions == 1

\* the ids the questions table gives to new rows, in order
QuestionIds == <<"q1", "q2", "q3", "q4">>

\* the id of the next row inserted into dbq; the id of a deleted row is
\* given out again, which keeps the set of ids finite
newQuestionId(dbq) ==
    QuestionIds[CHOOSE n \in 1..Len(QuestionIds) :
                    /\ \A k \in 1..Len(dbq) : dbq[k].id # QuestionIds[n]
                    /\ \A m \in 1..(n - 1) :
                          \E k \in 1..Len(dbq) : dbq[k].id = QuestionIds[m]]

\* the admin check with every caller let through
isCurrentUserAdminAlways(dbu, user) == TRUE

\* isAdmin, supabase.js:66-82, called by adminService.isCurrentUserAdmin:
\* the role of the signed-in user's row in public.users
isCurrentUserAdmin(dbu, user) ==
    \E k \in 1..Len(dbu) : dbu[k].id = user.id /\ dbu[k].role = "admin"

\* the messages of a failed admin check
DeniedMessages ==
    {"Only admins can create users", "Only admins can delete users",
     "Only admins can create questions", "Only admins can edit questions",
     "Only admins can resolve questions", "Only admins can delete questions"}

\* the common body of the six handlers, App.js:377-446 and 485-648: the
\* admin check, then the request that leaves the tables as dbq, dbf and
\* dbu when it succeeds (ok), then loadAppData
adminOperation(denied, done, dbq, dbf, dbu, ok, fetched) ==
    IF ~isCurrentUserAdmin(dbUsers, currentUser)
    THEN /\ ok /\ fetched
         /\ error' = denied
         /\ UNCHANGED <<questions, forecasts, users, dbQuestions, dbForecasts,
                        dbUsers, faults>>
    ELSE /\ Backend(ok, fetched)
         /\ IF ok
            THEN /\ loadAppData(dbq, dbf, dbu, currentUser, fetched)
                 /\ (fetched => error' = done)
            ELSE /\ error' = "Request failed"
                 /\ UNCHANGED <<questions, forecasts, users, dbQuestions,
                                dbForecasts, dbUsers>>

\* the value the handler returns: false after a failed admin check or a
\* failed request, true otherwise
returned(ok) ==
    IF isCurrentUserAdmin(dbUsers, currentUser) /\ ok THEN "true" ELSE "false"

\* the types and close dates entered in the question forms
FormTypes == {"binary", "three-category"}
FormCloseDates == {Null, Some(0)}

InitAdmin ==
    /\ pc = "app"
    /\ currentUser \in {DbUsers[1], DbUsers[2]}
    /\ dbQuestions = << DbQuestion("q1", "binary", Null) >>
    /\ dbForecasts = {Row("u1", "q1", <<Pair("probability", 60)>>, 0)}
    /\ dbUsers = DbUsers
    /\ questions = processedQuestions(dbQuestions, 0)
    /\ forecasts = selectForecasts(dbForecasts)
    /\ users = dbUsers
    /\ now = 0 /\ error = "" /\ faults = 0
    /\ IdleBrier /\ IdleTW /\ IdleStats

\* createQuestion, App.js:485-517
createQuestion(type, closeDate, ok, fetched) ==
    /\ Len(dbQuestions) < MaxQuestions
    /\ adminOperation("Only admins can create questions", "",
                      Append(dbQuestions,
                             DbQuestion(newQuestionId(dbQuestions), type,
                                        closeDate)),
                      dbForecasts, dbUsers, ok, fetched)
    /\ pc' = returned(ok)
    /\ UNCHANGED <<now, currentUser, brierVars, twVars, statsVars>>

\* the row of id with the payload of updateQuestion, App.js:553-562
updatedRow(q, id, type, closeDate) ==
    IF q.id = id THEN [q EXCEPT !.type = type, !.close_date = closeDate] ELSE q

\* the edit form of an open question saves, App.js:2560-2564 and 519-574
updateQuestion(i, type, closeDate, ok, fetched) ==
    /\ i \in 1..Len(questions)
    /\ ~questions[i].isResolved
    /\ adminOperation("Only admins can edit questions", "",
                      [k \in 1..Len(dbQuestions) |->
                          updatedRow(dbQuestions[k], questions[i].id, type,
                                     closeDate)],
                      dbForecasts, dbUsers, ok, fetched)
    /\ pc' = returned(ok)
    /\ UNCHANGED <<now, currentUser, brierVars, twVars, statsVars>>

\* handleResolve of the card of an open question, App.js:2417-2423, calling
\* resolveQuestion, App.js:576-620
handleResolve(i, resolution, ok, fetched) ==
    /\ i \in 1..Len(questions)
    /\ ~questions[i].isResolved
    /\ resolution \in CardResolutions(questions[i].type)
    /\ Truthy(resolution)
    /\ adminOperation("Only admins can resolve questions", "",
                      [k \in 1..Len(dbQuestions) |->
                          resolvedRow(dbQuestions[k], questions[i].id,
                                      resolution, now)],
                      dbForecasts, dbUsers, ok, fetched)
    /\ pc' = returned(ok)
    /\ UNCHANGED <<now, currentUser, brierVars, twVars, statsVars>>

\* deleteQuestion, App.js:622-648; the forecasts of the question go with it
\* (on delete cascade)
deleteQuestion(i, ok, fetched) ==
    /\ i \in 1..Len(questions)
    /\ adminOperation("Only admins can delete questions", "",
                      SelectSeq(dbQuestions, LAMBDA q : q.id # questions[i].id),
                      {r \in dbForecasts : r.question_id # questions[i].id},
                      dbUsers, ok, fetched)
    /\ pc' = returned(ok)
    /\ UNCHANGED <<now, currentUser, brierVars, twVars, statsVars>>

\* createUser, App.js:377-417: the invitation creates the row of user "u2"
createUser(ok, fetched) ==
    /\ \A k \in 1..Len(dbUsers) : dbUsers[k].id # "u2"
    /\ adminOperation("Only admins can create users", "Invitation email sent",
                      dbQuestions, dbForecasts,
                      Append(dbUsers, [id |-> "u2", role |-> "forecaster"]),
                      ok, fetched)
    /\ pc' = returned(ok)
    /\ UNCHANGED <<now, currentUser, brierVars, twVars, statsVars>>

\* deleteUser, App.js:419-446; the forecasts of the user go with the row
\* (on delete cascade)
deleteUser(k, ok, fetched) ==
    /\ k \in 1..Len(users)
    /\ adminOperation("Only admins can delete users", "",
                      dbQuestions,
                      {r \in dbForecasts : r.user_id # users[k].id},
                      SelectSeq(dbUsers, LAMBDA u : u.id # users[k].id),
                      ok, fetched)
    /\ pc' = returned(ok)
    /\ UNCHANGED <<now, currentUser, brierVars, twVars, statsVars>>

NextAdmin ==
    \/ \E type \in FormTypes, closeDate \in FormCloseDates, ok, fetched \in BOOLEAN :
          createQuestion(type, closeDate, ok, fetched)
    \/ \E i \in 1..Len(questions), type \in FormTypes,
          closeDate \in FormCloseDates, ok, fetched \in BOOLEAN :
          updateQuestion(i, type, closeDate, ok, fetched)
    \/ \E i \in 1..Len(questions), ok, fetched \in BOOLEAN :
          \E r \in CardResolutions(questions[i].type) :
              handleResolve(i, r, ok, fetched)
    \/ \E i \in 1..Len(questions), ok, fetched \in BOOLEAN :
          deleteQuestion(i, ok, fetched)
    \/ \E ok, fetched \in BOOLEAN : createUser(ok, fetched)
    \/ \E k \in 1..Len(users), ok, fetched \in BOOLEAN : deleteUser(k, ok, fetched)

SpecAdmin == InitAdmin /\ [][NextAdmin]_vars

-----------------------------------------------------------------------------
(* SpecShared: the admin and the forecaster u1, each in a browser session   *)
(* of their own, on the open binary question "q1" that closes at day 2.     *)
(* As in SpecStore, pc, currentUser, questions, forecasts, users and error  *)
(* hold one value per session, and quest holds the selectedQuestion of the  *)
(* session's QuestionsView.  A session selects the question, submits the    *)
(* forecast form, reloads the page, resolves or postpones the question from *)
(* the admin card; the clock advances.  A handler runs from its call to its *)
(* return in one step; the steps of the sessions interleave.                *)

\* the close date the edit form moves the question to
PostponedCloseDate == Some(Today(TimeAt(MaxClock + 1)))

InitShared ==
    /\ pc = [s \in Sessions |-> "idle"]
    /\ currentUser = [s \in Sessions |-> IF s = 1 THEN DbUsers[1] ELSE DbUsers[2]]
    /\ dbQuestions = << DbQuestion("q1", "binary", Some(Today(TimeAt(MaxClock)))) >>
    /\ dbForecasts = {}
    /\ dbUsers = DbUsers
    /\ questions = [s \in Sessions |-> processedQuestions(dbQuestions, 0)]
    /\ forecasts = [s \in Sessions |-> <<>>]
    /\ users = [s \in Sessions |-> dbUsers]
    /\ error = [s \in Sessions |-> ""]
    /\ quest = [s \in Sessions |-> Null]
    /\ hist = <<>> /\ tw = Num(0)
    /\ now = 0 /\ faults = 0
    /\ IdleBrier /\ IdleStats

\* loadAppData, App.js:172-225, run by session s on the tables dbq and dbf
sessionLoad(s, dbq, dbf) ==
    /\ questions' = [questions EXCEPT ![s] = processedQuestions(dbq, now)]
    /\ forecasts' = [forecasts EXCEPT ![s] = selectForecasts(dbf)]
    /\ users' = [users EXCEPT ![s] = dbUsers]
    /\ dbQuestions' = [i \in 1..Len(dbq) |->
                          autoResolveWrite(dbq[i], now, currentUser[s])]
    /\ dbForecasts' = dbf

\* the page of session s is reloaded: the components mount again and
\* initializeApp loads the data, App.js:110-125
refresh(s) ==
    /\ sessionLoad(s, dbQuestions, dbForecasts)
    /\ quest' = [quest EXCEPT ![s] = Null]
    /\ UNCHANGED <<pc, error, dbUsers, currentUser, now, faults, hist, tw,
                   brierVars, statsVars>>

\* a card of the list is clicked: setSelectedQuestion(question),
\* App.js:1358, keeps the question object of the current snapshot
selectQuestion(s, i) ==
    /\ i \in 1..Len(questions[s])
    /\ quest[s] # Some(questions[s][i])
    /\ quest' = [quest EXCEPT ![s] = Some(questions[s][i])]
    /\ UNCHANGED <<pc, questions, forecasts, users, error, dbQuestions,
                   dbForecasts, dbUsers, currentUser, now, faults, hist, tw,
                   brierVars, statsVars>>

\* the form of session s, shown for the selected question while that object
\* is not resolved (App.js:1364-1371 and 1523), submits: handleSubmit and
\* onSubmitForecast, App.js:1511-1521 and 709-743
submitForm(s, forecastVector) ==
    /\ quest[s] # Null
    /\ ~quest[s][1].isResolved
    /\ sessionLoad(s, dbQuestions,
                   upsertForecast(dbForecasts, currentUser[s].id,
                                  quest[s][1].id, forecastVector, now))
    /\ error' = [error EXCEPT ![s] = ""]
    /\ UNCHANGED <<pc, quest, dbUsers, currentUser, now, faults, hist, tw,
                   brierVars, statsVars>>

\* an admin handler of session s, called from the card of a question that is
\* open in the session's snapshot: the admin check, then the update that
\* leaves the questions table as dbq, then loadAppData
sessionAdminOperation(s, denied, dbq) ==
    /\ Len(questions[s]) > 0
    /\ ~questions[s][1].isResolved
    /\ IF ~isCurrentUserAdmin(dbUsers, currentUser[s])
       THEN /\ error' = [error EXCEPT ![s] = denied]
            /\ UNCHANGED <<questions, forecasts, users, dbQuestions, dbForecasts>>
       ELSE /\ sessionLoad(s, dbq, dbForecasts)
            /\ error' = [error EXCEPT ![s] = ""]
    /\ UNCHANGED <<pc, quest, dbUsers, currentUser, now, faults, hist, tw,
                   brierVars, statsVars>>

\* the card of session s resolves the question: App.js:2417-2423 and 576-620
resolveInSession(s, resolution) ==
    /\ resolution \in CardResolutions("binary")
    /\ Truthy(resolution)
    /\ sessionAdminOperation(s, "Only admins can resolve questions",
                             [k \in 1..Len(dbQuestions) |->
                                 resolvedRow(dbQuestions[k], "q1", resolution,
                                             now)])

\* the edit form of session s moves the close date: App.js:2560-2564 and
\* 519-574
postponeInSession(s) ==
    sessionAdminOperation(s, "Only admins can edit questions",
                          [k \in 1..Len(dbQuestions) |->
                              updatedRow(dbQuestions[k], "q1",
                                         dbQuestions[k].type,
                                         PostponedCloseDate)])

\* the clock advances
tickShared ==
    /\ now < TimeAt(MaxClock)
    /\ now' = now + StepMs
    /\ UNCHANGED <<pc, questions, forecasts, users, dbQuestions, dbForecasts,
                   dbUsers, currentUser, error, faults, brierVars, twVars,
                   statsVars>>

NextShared ==
    \/ \E s \in Sessions : refresh(s)
    \/ \E s \in Sessions : \E i \in 1..Len(questions[s]) : selectQuestion(s, i)
    \/ \E s \in Sessions, v \in FormForecasts("binary") : submitForm(s, v)
    \/ \E s \in Sessions, r \in CardResolutions("binary") : resolveInSession(s, r)
    \/ \E s \in Sessions : postponeInSession(s)
    \/ tickShared

SpecShared == InitShared /\ [][NextShared]_vars

-----------------------------------------------------------------------------
(* SpecRender: the dashboard renders twice over one snapshot, each render   *)
(* calling getUserStats("u1").  The arrays of the call are kept in a heap:  *)
(* the state arrays questions and forecasts the function closes over, and   *)
(* the arrays it allocates.                                                 *)

\* the snapshots: up to MaxRows rows of StatsRows in any order, one row per
\* user and question (forecasts_user_question_idx)
RenderSnapshots ==
    {rows \in UNION {[1..n -> StatsRows] : n \in 0..MaxRows} :
        \A i, j \in 1..Len(rows) :
            (/\ rows[i].user_id = rows[j].user_id
             /\ rows[i].question_id = rows[j].question_id) => i = j}

\* Array.prototype.filter: the elements kept of the array it is called on
\* go to a new array, here the cell to
arrayFilter(heap, to, kept) == [heap EXCEPT ![to] = kept]

\* Array.prototype.sort with the comparator of App.js:671: the array of cell
\* ref is sorted in place
arraySort(heap, ref) ==
    [heap EXCEPT ![ref] = sortByCreatedAt(heap[ref])]

\* .sort called on the forecasts state itself
sharedForecastsArray == "forecasts"

\* the array .sort is called on, App.js:669-671: the one filter returned
historyArray == "history"

\* the arrays after getUserStats(userId), App.js:651-698
heapAfterGetUserStats(userId, qs, fs) ==
    LET h0 == [forecasts |-> fs, questions |-> qs, userForecasts |-> <<>>,
               resolvedQuestions |-> <<>>, answeredQuestions |-> <<>>,
               history |-> <<>>]
        h1 == arrayFilter(h0, "userForecasts",
                          SelectSeq(h0.forecasts, LAMBDA f : f.user_id = userId))
        h2 == arrayFilter(h1, "resolvedQuestions",
                          SelectSeq(h1.questions, LAMBDA q : q.isResolved))
        h3 == arrayFilter(h2, "answeredQuestions",
                          SelectSeq(h2.resolvedQuestions,
                                    LAMBDA q : \E i \in 1..Len(h2.userForecasts) :
                                        h2.userForecasts[i].question_id = q.id))
        n == Len(h3.answeredQuestions)
        forEach[i \in 0..n] ==
            IF i = 0 THEN h3
            ELSE arraySort(
                     arrayFilter(forEach[i - 1], "history",
                                 SelectSeq(forEach[i - 1].userForecasts,
                                           LAMBDA f : f.question_id
                                               = h3.answeredQuestions[i].id)),
                     historyArray)
    IN  forEach[n]

InitRender ==
    /\ pc = "mounted"
    /\ \E r \in StatsResolutions : questions = StatsQuestions(r)
    /\ users = << [id |-> "u1"], [id |-> "u2"] >>
    /\ forecasts \in RenderSnapshots
    /\ stats = NoStats
    /\ board = NoBoard
    /\ IdleBrier /\ IdleTW /\ IdleApp

\* a render of the dashboard: getUserStats(currentUser.id) on the state
\* arrays, which are left as the call leaves them
Render ==
    /\ pc \in {"mounted", "rendered"}
    /\ LET heap == heapAfterGetUserStats("u1", questions, forecasts)
       IN  /\ stats' = getUserStats("u1", questions, forecasts)
           /\ forecasts' = heap.forecasts
           /\ questions' = heap.questions
    /\ pc' = IF pc = "mounted" THEN "rendered" ELSE "rendered again"
    /\ UNCHANGED <<users, board, brierVars, twVars, appVars>>

NextRender == Render

SpecRender == InitRender /\ [][NextRender]_vars

-----------------------------------------------------------------------------
(* Claims about calculateTimeWeightedBrier (SpecTW)                         *)

CreatedAt(h, i) == h[i].created_at[1]

\* max(1, floor((end - start) / 1 day) + 1), the window ending at the next
\* entry's creation time or, for the last entry, at the resolution date
ClaimedDays(h, q, i) ==
    LET end == IF i < Len(h) THEN CreatedAt(h, i + 1) ELSE q.resolvedDate[1]
        d == ((end - CreatedAt(h, i)) \div MsPerDay) + 1
    IN  IF d > 1 THEN d ELSE 1

EntryScore(h, q, i) == calculateBrierScore(h[i].forecast, q.resolution, q.type)

\* sum(score_i * days_i) / sum(days_i)
ClaimedWeightedMean(h, q) ==
    LET n == Len(h)
        WS[i \in 0..n] ==
            IF i = 0 THEN Num(0)
            ELSE NumAdd(WS[i - 1],
                        NumMul(EntryScore(h, q, i), Num(ClaimedDays(h, q, i))))
        DS[i \in 0..n] == IF i = 0 THEN 0 ELSE DS[i - 1] + ClaimedDays(h, q, i)
    IN  NumDiv(WS[n], Num(DS[n]))

\* C1: for a resolved question and a non-empty history the result is
\* sum(score_i * days_i) / sum(days_i) with days_i = max(1, floor((end -
\* start) / 1 day) + 1), and every days_i is at least 1, also when the
\* resolution date precedes the last forecast's creation time.
C1_WeightedMean ==
    (pc = "weighted" /\ quest.isResolved /\ Len(hist) > 0) =>
        /\ \A i \in 1..Len(hist) :
              /\ daysActive(hist, quest, i) >= 1
              /\ daysActive(hist, quest, i) = ClaimedDays(hist, quest, i)
        /\ tw = ClaimedWeightedMean(hist, quest)

\* a two-entry history whose last entry was created after the resolution date
C1_Witness ==
    /\ pc = "weighted" /\ quest.isResolved /\ Len(hist) = 2
    /\ quest.resolvedDate[1] < CreatedAt(hist, 2)
    /\ CreatedAt(hist, 1) < CreatedAt(hist, 2)
    /\ daysActive(hist, quest, 2) = 1
    /\ daysActive(hist, quest, 1) = 3
    /\ hist[1].forecast # hist[2].forecast
    /\ tw = ClaimedWeightedMean(hist, quest)

\* A (probability 50) at day 0, B (probability 90) at day 5, resolved true
\* at day 10
C2_Scenario ==
    /\ pc = "weighted"
    /\ hist = << Row("u1", "q1", <<Pair("probability", 50)>>, 0),
                 Row("u1", "q1", <<Pair("probability", 90)>>, 5 * MsPerDay) >>
    /\ quest.isResolved /\ quest.resolution = JsBool(TRUE)
    /\ quest.resolvedDate = Some(10 * MsPerDay)

WeightedPair(h, q, wA, wB) ==
    NumDiv(NumAdd(NumMul(EntryScore(h, q, 1), Num(wA)),
                  NumMul(EntryScore(h, q, 2), Num(wB))),
           Num(wA + wB))

\* C2 as stated: the scenario weights A by 5 days and B by 6 days.
C2_Original ==
    C2_Scenario =>
        /\ daysActive(hist, quest, 1) = 5
        /\ daysActive(hist, quest, 2) = 6
        /\ tw = WeightedPair(hist, quest, 5, 6)

\* C2, amended: in the scenario both A and B are weighted by 6 days (day 0
\* to day 5 and day 5 to day 10, each inclusive by the + 1 rule), so the
\* score is (scoreA * 6 + scoreB * 6) / 12 = 0.26.
C2_Amended ==
    C2_Scenario =>
        /\ daysActive(hist, quest, 1) = 6
        /\ daysActive(hist, quest, 2) = 6
        /\ tw = WeightedPair(hist, quest, 6, 6)
        /\ tw = Rat(26, 100)

C2_Witness == C2_Scenario /\ tw = Rat(13, 50)

Orderings(h) ==
    LET n == Len(h)
        perms == {p \in [1..n -> 1..n] : \A i, j \in 1..n : p[i] = p[j] => i = j}
    IN  {[i \in 1..n |-> h[p[i]]] : p \in perms}

DistinctCreationTimes(h) ==
    \A i, j \in 1..Len(h) : CreatedAt(h, i) = CreatedAt(h, j) => i = j

\* C5 as stated: calculateTimeWeightedBrier gives the same result for every
\* ordering of the same history entries.
C5_Original ==
    (pc = "weighted" /\ quest.isResolved) =>
        \A h \in Orderings(hist) : calculateTimeWeightedBrier(h, quest) = tw

\* C5, amended: calculateTimeWeightedBrier takes the history in the order
\* given; getUserStats sorts it by created_at before the call, so for
\* entries with pairwise distinct creation times the score getUserStats
\* obtains is the same for every ordering of the entries, and is the score
\* of the ascending ordering.
C5_SortedByCaller ==
    (pc = "sortedWeighted" /\ quest.isResolved /\ DistinctCreationTimes(hist)) =>
        \A h \in Orderings(hist) :
            /\ questionScore(h, quest) = tw
            /\ (\A i \in 1..(Len(h) - 1) : CreatedAt(h, i) < CreatedAt(h, i + 1))
                  => calculateTimeWeightedBrier(h, quest) = tw

\* a history given in descending order whose two orderings score differently
C5_Witness ==
    /\ pc = "sortedWeighted" /\ quest.isResolved /\ Len(hist) = 2
    /\ CreatedAt(hist, 1) > CreatedAt(hist, 2)
    /\ calculateTimeWeightedBrier(hist, quest) # tw
    /\ calculateTimeWeightedBrier(<<hist[2], hist[1]>>, quest) = tw

-----------------------------------------------------------------------------
(* Claims about calculateBrierScore (SpecBrier)                             *)

Sq(i) == i * i

\* C6: for a binary question the score is (p - o)^2 + ((1 - p) - (1 - o))^2
\* with p = probability / 100 and o = 1 for resolution true, else 0: in
\* hundredths, ((P - 100 o)^2 + ((100 - P) - (100 - 100 o))^2) / 10000;
\* probability 100 against true scores 0 and probability 0 against true
\* scores 2.
C6_BinaryTwoTerm ==
    (pc = "scored" /\ qtype = "binary" /\ HasKey(fc, "probability")) =>
        LET P == Val(fc, "probability")
            o == IF res = JsBool(TRUE) THEN 1 ELSE 0
        IN  /\ score = Rat(Sq(P - 100 * o) + Sq((100 - P) - (100 - 100 * o)),
                           10000)
            /\ (P = 100 /\ o = 1) => score = Num(0)
            /\ (P = 0 /\ o = 1) => score = Num(2)

C6_Witness ==
    /\ pc = "scored" /\ qtype = "binary" /\ res = JsBool(TRUE)
    /\ fc = <<Pair("probability", 0)>>
    /\ score = Num(2)

\* the keys calculateBrierScore reads for a question type
CanonicalKeys(type) ==
    IF type = "binary" THEN <<"probability">>
    ELSE IF type = "three-category" THEN <<"increase", "unchanged", "decrease">>
    ELSE <<>>

RECURSIVE SumVals(_, _)
\* the sum of the first i values of forecast f
SumVals(f, i) == IF i = 0 THEN 0 ELSE SumVals(f, i - 1) + f[i].val

RECURSIVE SumSqVals(_, _)
\* the sum of the squares of the first i values of forecast f
SumSqVals(f, i) == IF i = 0 THEN 0 ELSE SumSqVals(f, i - 1) + Sq(f[i].val)

\* a forecast that carries a probability within 0..100 for every scored key
\* and, for three-category and multiple-choice, probabilities summing to 100
WellFormed(f, type) ==
    /\ \A i \in 1..Len(f) : f[i].val \in 0..100
    /\ \A i \in 1..Len(CanonicalKeys(type)) : HasKey(f, CanonicalKeys(type)[i])
    /\ type = "three-category" =>
          Val(f, "increase") + Val(f, "unchanged") + Val(f, "decrease") = 100
    /\ type = "multiple-choice" => SumVals(f, Len(f)) = 100

\* C7: for every question type, every forecast whose probabilities are each
\* within 0..100 (summing to 100 for three-category and multiple-choice) and
\* every resolution, the score s satisfies 0 <= s <= 2.
C7_ScoreBounds ==
    (pc = "scored" /\ WellFormed(fc, qtype)) =>
        NumLe(Num(0), score) /\ NumLe(score, Num(2))

\* all the mass on a losing category: the bound 2 is attained
C7_Witness ==
    /\ pc = "scored" /\ qtype = "three-category" /\ WellFormed(fc, qtype)
    /\ Val(fc, "increase") = 100 /\ res = JsStr("decrease")
    /\ score = Num(2)

\* the options of the multiple-choice question
QuestionOptions == <<"Technology", "Healthcare", "Energy", "Manufacturing">>

\* the keys the score is taken over: for multiple-choice, question.options
ScoredKeys(type) ==
    IF type = "multiple-choice" THEN QuestionOptions ELSE CanonicalKeys(type)

RECURSIVE FillZero(_, _, _)
\* f with probability 0 under each of the first i keys that it lacks
FillZero(f, keys, i) ==
    IF i = 0 THEN f
    ELSE LET g == FillZero(f, keys, i - 1)
         IN  IF HasKey(g, keys[i]) THEN g ELSE Append(g, Pair(keys[i], 0))

IsScoredKey(v, type) ==
    \E i \in 1..Len(ScoredKeys(type)) : StrictEqStr(v, ScoredKeys(type)[i])

\* C8 as stated: a scored key absent from the forecast counts as probability
\* 0, for every question type; a forecast with no keys scores exactly 1
\* against a resolution that is one of the scored keys; the result is never
\* NaN or an error.
C8_Original ==
    /\ pc = "stats" => ~stats.threw /\ ~stats.brierScore.nan
    /\ pc = "scored" =>
        /\ ~score.nan
        /\ score = calculateBrierScore(
                       FillZero(fc, ScoredKeys(qtype), Len(ScoredKeys(qtype))),
                       res, qtype)
        /\ (fc = <<>> /\ qtype # "binary" /\ IsScoredKey(res, qtype))
              => score = Num(1)

\* the sum of the squared probabilities of forecast f, as a fraction
SumSquaredProbabilities(f, type) ==
    IF type = "three-category"
    THEN Rat(Sq(Val(f, "increase")) + Sq(Val(f, "unchanged"))
             + Sq(Val(f, "decrease")), 10000)
    ELSE Rat(SumSqVals(f, Len(f)), 10000)

\* a three-category or multiple-choice forecast that carries its keys, with a
\* resolution that is none of the scored keys
UnmatchedCase ==
    /\ qtype \in {"three-category", "multiple-choice"}
    /\ ~IsScoredKey(res, qtype)
    /\ \A i \in 1..Len(CanonicalKeys(qtype)) : HasKey(fc, CanonicalKeys(qtype)[i])
    /\ fc # <<>>

\* C9: for three-category and multiple-choice questions, when the resolution
\* matches none of the scored keys, calculateBrierScore returns the sum of
\* the squared probabilities (every indicator is 0) and raises no error, so
\* getUserStats and getLeaderboard still produce a result.
C9_UnmatchedResolution ==
    /\ (pc = "scored" /\ UnmatchedCase) =>
          ~score.nan /\ score = SumSquaredProbabilities(fc, qtype)
    /\ (pc = "stats" /\ UnmatchedCase) =>
          /\ ~stats.threw
          /\ stats.brierScore = ToFixed(SumSquaredProbabilities(fc, qtype), 1000)
          /\ stats.accuracy = Num(0)
          /\ ~board.threw /\ Len(board.rows) = 2

\* the admin picked "Remain Unchanged": the stored resolution is the
\* lower-cased label, which is none of the scored keys
C9_Witness ==
    /\ pc = "scored" /\ qtype = "three-category"
    /\ res = JsStr("remain unchanged")
    /\ fc = <<Pair("increase", 30), Pair("unchanged", 40), Pair("decrease", 30)>>
    /\ score = Rat(34, 100)

\* the forecast with its middle value under the canonical key
Canonical(f) ==
    [i \in 1..Len(f) |->
        IF f[i].key = "remain unchanged" THEN Pair("unchanged", f[i].val) ELSE f[i]]

\* C10 as stated: a three-category forecast whose middle value is stored
\* under the synonym key "remain unchanged" gets the same Brier score and
\* the same user statistics as the otherwise identical forecast stored under
\* the canonical key unchanged.
C10_Original ==
    (/\ qtype = "three-category"
     /\ HasKey(fc, "remain unchanged") /\ ~HasKey(fc, "unchanged"))
    =>  /\ pc = "scored" => score = calculateBrierScore(Canonical(fc), res, qtype)
        /\ pc = "stats" =>
              stats = getUserStats("u1", OneQuestion, OneForecast(Canonical(fc)))

-----------------------------------------------------------------------------
(* Claims about the forecast history (Spec)                                 *)

\* C3 as stated: when a user submits a forecast and later revises it, both
\* values remain available as separate history entries with their own
\* creation times: a stored value and its creation time are still stored
\* after every step.
C3_Original ==
    [][\A r \in dbForecasts :
          \E r2 \in dbForecasts' :
              /\ r2.user_id = r.user_id /\ r2.question_id = r.question_id
              /\ r2.forecast = r.forecast /\ r2.created_at = r.created_at]_vars

-----------------------------------------------------------------------------
(* Claims about getLeaderboard (SpecBoard)                                  *)

\* the position of user u in the rendered leaderboard
BoardPosition(u) == CHOOSE i \in 1..Len(board.rows) : board.rows[i].id = u

\* the stats the leaderboard shows for user u
BoardStats(u) == board.rows[BoardPosition(u)].stats

\* user u has a forecast on a resolved question
HasResolvedForecast(u) ==
    \E i \in 1..Len(forecasts), k \in 1..Len(questions) :
        /\ forecasts[i].user_id = u
        /\ forecasts[i].question_id = questions[k].id
        /\ questions[k].isResolved

BoardShown == pc = "board" /\ ~board.threw

UserIds == {users[i].id : i \in 1..Len(users)}

\* C11: in the output of getLeaderboard, for every two users A and B that
\* each have a forecast on a resolved question, a strictly smaller
\* brierScore of A puts A strictly before B.
C11_Original ==
    BoardShown =>
        \A a, b \in UserIds :
            (/\ HasResolvedForecast(a) /\ HasResolvedForecast(b)
             /\ NumLt(BoardStats(a).brierScore, BoardStats(b).brierScore))
            => BoardPosition(a) < BoardPosition(b)

\* C12: a user with no forecast on any resolved question gets brierScore 0
\* and accuracy 0, and the leaderboard places that user ahead of every user
\* whose brierScore is greater than 0.
C12_Original ==
    BoardShown =>
        \A z \in UserIds :
            ~HasResolvedForecast(z) =>
                /\ BoardStats(z).brierScore = Num(0)
                /\ BoardStats(z).accuracy = Num(0)
                /\ \A b \in UserIds :
                       NumLt(Num(0), BoardStats(b).brierScore)
                       => BoardPosition(z) < BoardPosition(b)

\* C13: users whose brierScore is equal appear in the leaderboard in the
\* same relative order as in the users snapshot.
C13_Original ==
    BoardShown =>
        \A i, j \in 1..Len(users) :
            (/\ i < j
             /\ ~BoardStats(users[i].id).brierScore.nan
             /\ BoardStats(users[i].id).brierScore
                    = BoardStats(users[j].id).brierScore)
            => BoardPosition(users[i].id) < BoardPosition(users[j].id)

-----------------------------------------------------------------------------
(* Claims about getUserStats (SpecStats)                                    *)

\* the indices of the snapshot rows of u1 on question q
StatsRowsOn(q) ==
    {i \in 1..Len(forecasts) :
        forecasts[i].user_id = "u1" /\ forecasts[i].question_id = q}

\* the resolved questions u1 has a forecast on
StatsAnswered ==
    {k \in 1..Len(questions) :
        questions[k].isResolved /\ StatsRowsOn(questions[k].id) # {}}

ScoredRows(fs, qs) ==
    SelectSeq(fs, LAMBDA f :
        /\ f.user_id = "u1"
        /\ \E k \in 1..Len(qs) : qs[k].id = f.question_id /\ qs[k].isResolved)

\* C15: brierScore and accuracy depend only on the user's forecasts on
\* resolved questions: a reload that adds, changes or removes a forecast of
\* the user on an open question, or any forecast of another user, leaves
\* both unchanged.
C15_Frame ==
    [][ScoredRows(forecasts', questions') = ScoredRows(forecasts, questions)
        => /\ stats'.brierScore = stats.brierScore
           /\ stats'.accuracy = stats.accuracy]_vars

\* u1 at 50% on q1 next to a row of u2 on q1 and a row of u1 on the open q3
C15_Witness ==
    /\ pc = "stats"
    /\ Len(ScoredRows(forecasts, questions)) = 1
    /\ \E i \in 1..Len(forecasts) :
          forecasts[i].user_id = "u2" /\ forecasts[i].question_id = "q1"
          /\ forecasts[i].forecast = <<Pair("probability", 90)>>
    /\ StatsRowsOn("q3") # {}
    /\ stats.brierScore = Rat(1, 2)
    /\ stats.accuracy = Num(0)

\* the rows of u1 on question q, oldest first
StatsHistory(q) ==
    sortByCreatedAt(SelectSeq(forecasts, LAMBDA f :
                        f.user_id = "u1" /\ f.question_id = q))

\* the row of u1 on q with the latest creation time, when there is one such
LatestForecastOn(q) ==
    CHOOSE i \in StatsRowsOn(q) :
        \A j \in StatsRowsOn(q) \ {i} :
            forecasts[j].created_at[1] < forecasts[i].created_at[1]

HasLatestForecastOn(q) ==
    \E i \in StatsRowsOn(q) :
        \A j \in StatsRowsOn(q) \ {i} :
            forecasts[j].created_at[1] < forecasts[i].created_at[1]

\* the first key, in the forecast's key order, that holds the maximum value
FirstArgMax(f) ==
    f[CHOOSE i \in 1..Len(f) :
          /\ \A j \in 1..Len(f) : f[j].val <= f[i].val
          /\ \A j \in 1..(i - 1) : f[j].val < f[i].val].key

\* 1 when the last forecast on the binary q1 counts as correct
CorrectOnBinary ==
    IF StatsRowsOn("q1") # {}
       /\ isCorrect(questions[1], StatsHistory("q1")[Len(StatsHistory("q1"))])
    THEN 1 ELSE 0

\* C16: on a resolved three-category or multiple-choice question the
\* prediction counts as correct iff the arg-max key of the user's last
\* forecast (latest creation time) equals the resolution, the first key in
\* key order being taken when several keys share the maximum.
C16_Original ==
    (pc = "stats" /\ HasLatestForecastOn("q2")) =>
        LET predicted == FirstArgMax(forecasts[LatestForecastOn("q2")].forecast)
            correct == IF StrictEqStr(questions[2].resolution, predicted)
                       THEN 1 ELSE 0
        IN  stats.accuracy
               = ToFixed(NumMul(NumDiv(Num(CorrectOnBinary + correct),
                                       Num(Cardinality(StatsAnswered))),
                                Num(100)), 10)

\* the time-weighted score of question k from the sorted history of u1
PerQuestionScore(k) ==
    IF k \in StatsAnswered
    THEN ClaimedWeightedMean(StatsHistory(questions[k].id), questions[k])
    ELSE Num(0)

-----------------------------------------------------------------------------
(* Claims about the forecast form (SpecForm)                                *)

\* the forecast stored for u1 on q1
StoredForecast ==
    (CHOOSE r \in dbForecasts : r.user_id = "u1" /\ r.question_id = "q1").forecast

RECURSIVE ScoredSum(_, _, _)
\* the sum of the values of forecast f under the first i scored keys
ScoredSum(f, keys, i) ==
    IF i = 0 THEN 0
    ELSE ScoredSum(f, keys, i - 1) + (IF HasKey(f, keys[i]) THEN Val(f, keys[i]) ELSE 0)

RequiresTotal == questions[1].type \in {"three-category", "multiple-choice"}

\* C18: every three-category or multiple-choice forecast that passes the
\* form's validation and is handed to onSubmitForecast has its scored values
\* (increase, unchanged, decrease; or one per option) summing to exactly 100.
C18_Original ==
    (pc = "submitted" /\ RequiresTotal) =>
        ScoredSum(StoredForecast, formKeys(questions[1].type),
                  Len(formKeys(questions[1].type))) = 100

\* C19: when the values of a three-category or multiple-choice forecast do
\* not sum to 100, submitting makes no call to onSubmitForecast (no upsert,
\* no reload, the stored forecasts unchanged); a binary forecast is never
\* rejected for its total.
C19_NoCallWhenInvalid ==
    [][/\ (RequiresTotal /\ SumVals(fc, Len(fc)) # 100)
          => UNCHANGED <<dbForecasts, dbQuestions, forecasts, questions, users,
                         faults, error>>
       /\ ~RequiresTotal => pc' # "rejected"]_vars

\* a three-category form totalling 130 was submitted and nothing was stored
C19_Witness ==
    /\ pc = "rejected"
    /\ questions[1].type = "three-category"
    /\ SumVals(fc, Len(fc)) = 130
    /\ dbForecasts = {}
    /\ faults = 0

-----------------------------------------------------------------------------
(* Claims about the forecasts table (SpecStore)                             *)

\* the rows of the table for user u on question q
StoredRows(rows, u, q) == {r \in rows : r.user_id = u /\ r.question_id = q}

\* C20: after any interleaving of submissions the table holds at most one
\* forecast per (user, question), and a submission that is written replaces
\* whatever the same user had stored for the question: the last write is
\* the value stored.
C20_LastWriteWins ==
    [][/\ \A r1, r2 \in dbForecasts' :
             (r1.user_id = r2.user_id /\ r1.question_id = r2.question_id)
             => r1 = r2
       /\ \A s \in Sessions, v \in FormForecasts("binary") :
             sendUpsert(s, v, TRUE)
             => {r.forecast : r \in StoredRows(dbForecasts', currentUser[s].id, "q1")}
                   = {v}]_vars

\* two sessions of u1: the first stored 50% and reloaded, the second has
\* since overwritten it with 90% and not reloaded yet
C20_Witness ==
    /\ pc[1] = "idle" /\ pc[2] = "reload"
    /\ currentUser[2].id = "u1"
    /\ Len(forecasts[1]) = 1
    /\ forecasts[1][1].forecast = <<Pair("probability", 50)>>
    /\ {r.forecast : r \in dbForecasts} = {<<Pair("probability", 90)>>}


-----------------------------------------------------------------------------
(* Claims about calculateTimeWeightedBrier on empty and mixed histories     *)
(* (SpecTW)                                                                 *)

\* C23: for an empty history calculateTimeWeightedBrier returns the number
\* 0, not NaN and not an error, whether or not the question is resolved and
\* whether it is called directly or on the sorted history.
C23_EmptyHistory ==
    (pc \in {"weighted", "sortedWeighted"} /\ Len(hist) = 0) =>
        /\ tw = Num(0)
        /\ ~tw.nan

\* the call on the empty history of a resolved question
C23_Witness ==
    /\ pc = "weighted" /\ hist = <<>> /\ quest.isResolved
    /\ quest.resolvedDate # Null
    /\ tw = Num(0)

\* the entry scores of history h in the order of h
EntryScores(h, q) == {EntryScore(h, q, i) : i \in 1..Len(h)}

-----------------------------------------------------------------------------
(* Claims about loadAppData and the question state (Spec)                   *)

\* a step in which a select of loadAppData returned an error: the only
\* other failing call of a step is the upsert, which sets "Submit failed"
LoadFailed == faults' # faults /\ error' # "Submit failed"

\* a row of the questions table is marked resolved without a resolution,
\* which is what the update of App.js:197-200 does
AutoResolveWritten ==
    \E k \in 1..Len(dbQuestions) :
        /\ ~dbQuestions[k].is_resolved
        /\ dbQuestions'[k].is_resolved
        /\ dbQuestions'[k].resolution = JsNull

\* C29: when a select of loadAppData returns an error, the questions, the
\* forecasts and the users of the app state all stay as they were, no
\* auto-resolve update is sent, and the error message is set.
C29_FailedLoadKeepsSnapshot ==
    [][LoadFailed =>
          /\ questions' = questions
          /\ forecasts' = forecasts
          /\ users' = users
          /\ ~AutoResolveWritten
          /\ error' = "Failed to load data"]_vars

\* the admin's load failed after the close date of the open question was
\* reached: the sample questions are still shown and the row is still open
C29_Witness ==
    /\ faults = 1 /\ error = "Failed to load data"
    /\ currentUser = DbUsers[1]
    /\ questions = sampleQuestions /\ users = <<>>
    /\ closesBy(dbQuestions[1], now)


\* C22 as stated: in every question of the app state the resolution is
\* present exactly when isResolved is true, and so is resolvedDate, for
\* questions an admin resolved and for questions loadAppData marks resolved
\* at their close date.
C22_Original ==
    \A i \in 1..Len(questions) :
        /\ (questions[i].resolution # JsNull) <=> questions[i].isResolved
        /\ (questions[i].resolvedDate # Null) <=> questions[i].isResolved


\* C25 as stated: the resolution an admin stores for a three-category
\* question is one of the keys increase, unchanged, decrease under which
\* the forecast form stores the probabilities, so the picked category is
\* the one calculateBrierScore gives the indicator 1.
C25_Original ==
    \A k \in 1..Len(dbQuestions) :
        (dbQuestions[k].type = "three-category" /\ dbQuestions[k].resolution # JsNull)
            => /\ \E i \in 1..Len(formKeys("three-category")) :
                      dbQuestions[k].resolution = JsStr(formKeys("three-category")[i])
               /\ \A f \in FormForecasts("three-category") :
                      calculateBrierScore(f, dbQuestions[k].resolution,
                                          "three-category")
                          # SumSquaredProbabilities(f, "three-category")


-----------------------------------------------------------------------------
(* Claims about the admin check (SpecAdmin)                                 *)

\* the resolution stored for question id in table dbq, null when there is
\* no such row
StoredResolution(dbq, id) ==
    IF \E k \in 1..Len(dbq) : dbq[k].id = id
    THEN dbq[CHOOSE k \in 1..Len(dbq) : dbq[k].id = id].resolution
    ELSE JsNull

\* the signed-in user has a row in public.users with the role admin
HasAdminRole ==
    \E u \in {dbUsers[k] : k \in 1..Len(dbUsers)} :
        u.id = currentUser.id /\ u.role = "admin"

\* C30: a call of createQuestion, updateQuestion, resolveQuestion,
\* deleteQuestion, createUser or deleteUser by a user for whom the admin
\* check returns false returns false, sets an "Only admins can ..." message
\* and leaves the questions and users of the app state and the three tables
\* as they were; and a step that sets the resolution of a question is taken
\* by a user for whom the admin check returns true.
C30_DeniedChangesNothing ==
    [][/\ ~HasAdminRole =>
             /\ pc' = "false"
             /\ error' \in DeniedMessages
             /\ UNCHANGED <<questions, users, forecasts, dbQuestions, dbUsers,
                            dbForecasts>>
       /\ (\E n \in 1..Len(QuestionIds) :
              /\ StoredResolution(dbQuestions', QuestionIds[n]) # JsNull
              /\ StoredResolution(dbQuestions', QuestionIds[n])
                    # StoredResolution(dbQuestions, QuestionIds[n]))
             => HasAdminRole]_vars

\* the signed-in admin has deleted their own row and a later call, made
\* from the admin panel that is still shown, was refused
C30_Witness ==
    /\ currentUser = DbUsers[1]
    /\ ~HasAdminRole
    /\ pc = "false"
    /\ error = "Only admins can resolve questions"
    /\ Len(dbQuestions) = 1 /\ ~dbQuestions[1].is_resolved


-----------------------------------------------------------------------------
(* Claims about resolution across sessions (SpecShared)                     *)

\* C21 as stated: once a question is resolved in the question state of the
\* app, no later step makes isResolved false or changes its resolution.
C21_Original ==
    [][\A s \in Sessions :
          \A i \in 1..Len(questions[s]) :
              questions[s][i].isResolved =>
                  /\ i <= Len(questions'[s])
                  /\ questions'[s][i].isResolved
                  /\ questions'[s][i].resolution = questions[s][i].resolution]_vars

\* C26 as stated: no step creates or overwrites a forecast for a question
\* that is resolved at that moment, be it resolved in the questions table or
\* in the question state of the session that submits.
C26_Original ==
    [][\A r \in dbForecasts' \ dbForecasts :
          /\ \A k \in 1..Len(dbQuestions) :
                dbQuestions[k].id = r.question_id => ~dbQuestions[k].is_resolved
          /\ \A s \in Sessions :
                currentUser[s].id = r.user_id =>
                    \A i \in 1..Len(questions[s]) :
                        questions[s][i].id = r.question_id
                            => ~questions[s][i].isResolved]_vars


-----------------------------------------------------------------------------
(* Claims about repeated calls of getUserStats (SpecRender)                 *)

\* C24: a call of getUserStats leaves the questions array and the forecasts
\* array as they were, order included, and a second call for the same user
\* on the same snapshot returns the result of the first.
C24_SameResultNoMutation ==
    [][/\ forecasts' = forecasts
       /\ questions' = questions
       /\ pc = "rendered" => stats' = stats]_vars

\* two calls on a snapshot whose rows are not in the order of created_at,
\* with a scored question
C24_Witness ==
    /\ pc = "rendered again"
    /\ Len(forecasts) >= 2
    /\ sortByCreatedAt(forecasts) # forecasts
    /\ stats = getUserStats("u1", questions, forecasts)
    /\ ~stats.threw /\ stats.questionsAnswered >= 2
    /\ stats.brierScore # Num(0)


-----------------------------------------------------------------------------
(* Claims about the range of submitted values (SpecInput)                   *)

\* C28: every forecast that is handed to onSubmitForecast has each of its
\* values within 0..100, for binary, three-category and multiple-choice
\* questions.
C28_SubmittedWithinRange ==
    [][pc' \in {"submitted", "failed"} =>
          \A i \in 1..Len(fc) : fc[i].val >= 0 /\ fc[i].val <= 100]_vars

\* a three-category forecast at the ends of the range was stored after
\* values outside the range had been typed
C28_Witness ==
    /\ pc = "submitted"
    /\ questions[1].type = "three-category"
    /\ \E r \in dbForecasts :
          /\ Val(r.forecast, "increase") = 100
          /\ Val(r.forecast, "unchanged") = 0
          /\ Val(r.forecast, "decrease") = 0

=============================================================================
